---- MODULE Spec2Model ----
(***************************************************************************)
(* State-machine model of the zerocopyskiplist package.                    *)
(*                                                                         *)
(* The package holds two implementations of the index:                     *)
(*   CF  ZeroCopySkiplist[T, K]     (context-free,  zerocopyskiplist.go    *)
(*                                   lines 1-576)                          *)
(*   CA  ZeroCopySkiplist[T, K, C]  (context-aware, zerocopyskiplist.go    *)
(*                                   lines 578-975)                        *)
(* Go slices are 0-based, TLA+ sequences 1-based: forward[i] of the source *)
(* is forward[i+1] here.                                                   *)
(***************************************************************************)
EXTENDS Integers, Sequences, FiniteSets, TLC

(***************************************************************************)
(* Bounds of the model.                                                    *)
(***************************************************************************)
\* keys are the integers 1..MaxKey
MaxKey == 3
\* number of levels of an index (length of the header's forward array)
MaxLevels == 2

Keys == 1..MaxKey
\* two distinct records per key, so that replacing a record is observable
Vers == {1, 2}
\* a record (the *T the caller owns) is identified by <<key, version>>
Items == Keys \X Vers
\* the nil *T
NilItem == <<0, 0>>
\* values of the tag type C; 0 is the zero value of C
Contexts == {0, 1}
\* index instances: "A" is the index under test, "B" the other index of a Merge
Lists == {"A", "B"}
Variants == {"CF", "CA"}

(***************************************************************************)
(* The heap of ItemPtr objects.  A node allocated by index l for key k is  *)
(* named <<l, k>> (the name is free whenever k is absent from l); the      *)
(* header of l is <<l, 0>>.  Nil is the nil *ItemPtr.                      *)
(***************************************************************************)
Nil == <<"nil", 0>>
NodeIds == Lists \X (0..MaxKey)
HeaderOf(l) == <<l, 0>>

\* a heap cell that holds no object (never allocated, or garbage collected)
NoNode == [item |-> NilItem, key |-> 0, context |-> 0, forward |-> <<>>,
           backward |-> Nil, level |-> -1]
\* an index that has not been constructed
NoList == [header |-> Nil, level |-> 0, maxLevel |-> 0, length |-> 0]

VARIABLES
  variant,   \* which implementation the program uses
  heap,      \* NodeIds -> ItemPtr object
  lists,     \* Lists -> ZeroCopySkiplist object
  last,      \* the operation that produced this state, with its return value
  held,      \* history: for each key, the record a caller last put under it
  threads,   \* Threads -> the call a goroutine is in and its position in it
  locks      \* Lists -> the sync.RWMutex of the index

vars == <<variant, heap, lists, last, held, threads, locks>>

\* at most this many goroutines call into the indexes at the same time
MaxThreads == 3
Threads == 1..MaxThreads

\* a goroutine that is in no call
Idle == [op |-> "none", pos |-> "idle", dst |-> "A", src |-> "A", key |-> 0,
         item |-> NilItem, context |-> 0, strategy |-> 0, cur |-> Nil,
         begun |-> FALSE, val |-> 0, res |-> "nil",
         tmp |-> Nil, calls |-> <<>>, out |-> <<>>]

\* an RWMutex nobody holds: w is the goroutine that is in Lock() or holds the
\* write lock (0: none), readers[t] counts the read locks t holds
FreeLock == [w |-> 0, readers |-> [t \in Threads |-> 0]]

(***************************************************************************)
(* Caller-supplied callbacks, as the tests of the repository define them.  *)
(***************************************************************************)
\* getKeyFromTestItem: item.ID (dereferences item: panics on nil)
getKeyFromItem(item) == item[1]

\* compareInt / cmpInt: three-way comparison
cmpKey(a, b) == IF a < b THEN -1 ELSE IF a > b THEN 1 ELSE 0

(***************************************************************************)
(* Construction.                                                           *)
(***************************************************************************)
NilSeq(n) == [i \in 1..n |-> Nil]

\* MakeZeroCopySkiplist[T, K]: a non-positive maxLevel falls back to 16
MakeZeroCopySkiplistCF(w, l, maxLevel) ==
  LET ml == IF maxLevel <= 0 THEN 16 ELSE maxLevel
      header == [item |-> NilItem, key |-> 0, context |-> 0,
                 forward |-> NilSeq(ml), backward |-> Nil, level |-> 0]
  IN [heap  |-> [w.heap EXCEPT ![HeaderOf(l)] = header],
      lists |-> [w.lists EXCEPT ![l] = [header |-> HeaderOf(l), level |-> 0,
                                        maxLevel |-> ml, length |-> 0]]]

\* MakeZeroCopySkiplist[T, K, C]: maxLevel is taken as given, the header
\* has maxLevel+1 forward slots
MakeZeroCopySkiplistCA(w, l, maxLevel) ==
  LET header == [item |-> NilItem, key |-> 0, context |-> 0,
                 forward |-> NilSeq(maxLevel + 1), backward |-> Nil,
                 level |-> maxLevel]
  IN [heap  |-> [w.heap EXCEPT ![HeaderOf(l)] = header],
      lists |-> [w.lists EXCEPT ![l] = [header |-> HeaderOf(l), level |-> 0,
                                        maxLevel |-> maxLevel, length |-> 0]]]

\* the maxLevel argument that gives an index of variant v MaxLevels levels
ConfigMaxLevel(v) == IF v = "CF" THEN MaxLevels ELSE MaxLevels - 1

MakeZeroCopySkiplist(v, w, l) ==
  IF v = "CF" THEN MakeZeroCopySkiplistCF(w, l, ConfigMaxLevel(v))
              ELSE MakeZeroCopySkiplistCA(w, l, ConfigMaxLevel(v))

\* the garbage collector: the objects of a dropped index are reclaimed
DropList(w, l) ==
  [heap  |-> [id \in NodeIds |-> IF id[1] = l THEN NoNode ELSE w.heap[id]],
   lists |-> [w.lists EXCEPT ![l] = NoList]]

(***************************************************************************)
(* randomLevel: the set of levels the coin flips can produce.              *)
(***************************************************************************)
RECURSIVE randomLevelCF(_, _)
\* for rnd.Float64() < P && level < maxLevel-1 { level++ }
randomLevelCF(level, maxLevel) ==
  {level} \cup (IF level < maxLevel - 1
                THEN randomLevelCF(level + 1, maxLevel) ELSE {})

RECURSIVE randomLevelCA(_, _)
\* for rand.Float32() < 0.5 && level < maxLevel { level++ }
randomLevelCA(level, maxLevel) ==
  {level} \cup (IF level < maxLevel
                THEN randomLevelCA(level + 1, maxLevel) ELSE {})

randomLevel(v, maxLevel) ==
  IF v = "CF" THEN randomLevelCF(0, maxLevel) ELSE randomLevelCA(0, maxLevel)

(***************************************************************************)
(* search: the top-down descent that builds the update path.               *)
(***************************************************************************)
RECURSIVE Advance_Reversed(_, _, _, _)
\* Advance with the comparison turned round
Advance_Reversed(h, current, i, key) ==
  LET nxt == h[current].forward[i + 1]
  IN IF nxt # Nil /\ cmpKey(h[nxt].key, key) > 0
     THEN Advance_Reversed(h, nxt, i, key)
     ELSE current

RECURSIVE Advance(_, _, _, _)
\* for current.forward[i] != nil && cmpKey(current.forward[i].key, key) < 0
Advance(h, current, i, key) ==
  LET nxt == h[current].forward[i + 1]
  IN IF nxt # Nil /\ cmpKey(h[nxt].key, key) < 0
     THEN Advance(h, nxt, i, key)
     ELSE current

RECURSIVE Descend(_, _, _, _, _)
\* for i := sl.level; i >= 0; i-- { ...; update[i] = current }
Descend(h, current, i, key, update) ==
  LET c == Advance(h, current, i, key)
      u == [update EXCEPT ![i + 1] = c]
  IN IF i = 0
     THEN [update |-> u, current |-> h[c].forward[1]]
     ELSE Descend(h, c, i - 1, key, u)

\* search of ZeroCopySkiplist[T, K]: the update path and the candidate
searchCF(w, l, key) ==
  LET sl == w.lists[l]
  IN Descend(w.heap, sl.header, sl.level, key, NilSeq(sl.maxLevel))

\* the descent inlined in Insert and Delete of ZeroCopySkiplist[T, K, C]
locateCA(w, l, key) ==
  LET sl == w.lists[l]
  IN Descend(w.heap, sl.header, sl.level, key, NilSeq(sl.maxLevel + 1))

\* search of ZeroCopySkiplist[T, K, C]: the node with the key, or nil
searchCA(w, l, key) ==
  LET current == locateCA(w, l, key).current
  IN IF current # Nil /\ cmpKey(w.heap[current].key, key) = 0
     THEN current
     ELSE Nil

(***************************************************************************)
(* Insert.                                                                 *)
(***************************************************************************)
RECURSIVE LinkForward_DropTail(_, _, _, _, _)
\* LinkForward that forgets newNode.forward[i] = update[i].forward[i]
LinkForward_DropTail(h, newNode, update, i, newLevel) ==
  IF i > newLevel
  THEN h
  ELSE LinkForward_DropTail([h EXCEPT ![update[i + 1]].forward[i + 1] = newNode],
                            newNode, update, i + 1, newLevel)

RECURSIVE LinkForward(_, _, _, _, _)
\* for i := 0; i <= newLevel; i++ {
\*     newNode.forward[i] = update[i].forward[i]; update[i].forward[i] = newNode }
LinkForward(h, newNode, update, i, newLevel) ==
  IF i > newLevel
  THEN h
  ELSE LinkForward([h EXCEPT ![newNode].forward[i + 1] = h[update[i + 1]].forward[i + 1],
                             ![update[i + 1]].forward[i + 1] = newNode],
                   newNode, update, i + 1, newLevel)

\* LinkBackward that forgets the successor's backward link
LinkBackward_NoSuccessor(h, newNode, update, header) ==
  IF update[1] # header THEN [h EXCEPT ![newNode].backward = update[1]] ELSE h

\* if newNode.forward[0] != nil { newNode.forward[0].backward = newNode }
\* if update[0] != sl.header   { newNode.backward = update[0] }
LinkBackward(h, newNode, update, header) ==
  LET nxt == h[newNode].forward[1]
      h1  == IF nxt # Nil THEN [h EXCEPT ![nxt].backward = newNode] ELSE h
  IN IF update[1] # header THEN [h1 EXCEPT ![newNode].backward = update[1]] ELSE h1

\* if newLevel > sl.level { for i := sl.level+1; i <= newLevel; i++ { update[i] = sl.header } }
RaiseUpdate(update, level, newLevel, header) ==
  [i \in 1..Len(update) |->
     IF i - 1 > level /\ i - 1 <= newLevel THEN header ELSE update[i]]

\* SpliceNew that forgets sl.length++
SpliceNew_NoCount(w, l, update, item, key, context, newLevel, levelField) ==
  LET sl      == w.lists[l]
      upd     == RaiseUpdate(update, sl.level, newLevel, sl.header)
      newNode == <<l, key>>
      h0 == [w.heap EXCEPT ![newNode] =
               [item |-> item, key |-> key, context |-> context,
                forward |-> NilSeq(newLevel + 1), backward |-> Nil,
                level |-> levelField]]
      h1 == LinkForward(h0, newNode, upd, 0, newLevel)
      h2 == LinkBackward(h1, newNode, upd, sl.header)
  IN [heap  |-> h2,
      lists |-> [w.lists EXCEPT
                   ![l].level = IF newLevel > sl.level THEN newLevel ELSE sl.level]]

\* the part of Insert that follows the duplicate check: allocate the node
\* for levels 0..newLevel, splice it in, fix the backward links, count it
SpliceNew(w, l, update, item, key, context, newLevel, levelField) ==
  LET sl      == w.lists[l]
      upd     == RaiseUpdate(update, sl.level, newLevel, sl.header)
      newNode == <<l, key>>
      h0 == [w.heap EXCEPT ![newNode] =
               [item |-> item, key |-> key, context |-> context,
                forward |-> NilSeq(newLevel + 1), backward |-> Nil,
                level |-> levelField]]
      h1 == LinkForward(h0, newNode, upd, 0, newLevel)
      h2 == LinkBackward(h1, newNode, upd, sl.header)
  IN [heap  |-> h2,
      lists |-> [w.lists EXCEPT
                   ![l].level  = IF newLevel > sl.level THEN newLevel ELSE sl.level,
                   ![l].length = sl.length + 1]]

\* InsertCF that replaces the record of an existing key
InsertCF_Replace(w, l, item, newLevel) ==
  IF item = NilItem
  THEN [w |-> w, ret |-> "false"]
  ELSE LET key == getKeyFromItem(item)
           s   == searchCF(w, l, key)
       IN IF s.current # Nil /\ cmpKey(w.heap[s.current].key, key) = 0
          THEN [w |-> [w EXCEPT !.heap[s.current].item = item], ret |-> "false"]
          ELSE [w |-> SpliceNew(w, l, s.update, item, key, 0, newLevel, 0),
                ret |-> "true"]

\* Insert / insertUnsafe of ZeroCopySkiplist[T, K]; newLevel is the level
\* randomLevel() draws.  Return values are "true" / "false" / "panic".
InsertCF(w, l, item, newLevel) ==
  IF item = NilItem
  THEN [w |-> w, ret |-> "false"]
  ELSE LET key == getKeyFromItem(item)
           s   == searchCF(w, l, key)
       IN IF s.current # Nil /\ cmpKey(w.heap[s.current].key, key) = 0
          THEN [w |-> w, ret |-> "false"]
          ELSE [w |-> SpliceNew(w, l, s.update, item, key, 0, newLevel, 0),
                ret |-> "true"]

\* InsertCA that replaces the tag of an existing key only by a tag that
\* is set
InsertCA_TagIfSet(w, l, item, context, newLevel) ==
  IF item = NilItem
  THEN [w |-> w, ret |-> "panic"]
  ELSE LET key == getKeyFromItem(item)
           s   == locateCA(w, l, key)
       IN IF s.current # Nil /\ cmpKey(w.heap[s.current].key, key) = 0
          THEN [w |-> [w EXCEPT
                         !.heap[s.current].item = item,
                         !.heap[s.current].context =
                            IF context # 0 THEN context ELSE @],
                ret |-> "false"]
          ELSE [w |-> SpliceNew(w, l, s.update, item, key, context, newLevel,
                                newLevel),
                ret |-> "true"]

\* InsertCA that keeps the tag of an existing key
InsertCA_KeepTag(w, l, item, context, newLevel) ==
  IF item = NilItem
  THEN [w |-> w, ret |-> "panic"]
  ELSE LET key == getKeyFromItem(item)
           s   == locateCA(w, l, key)
       IN IF s.current # Nil /\ cmpKey(w.heap[s.current].key, key) = 0
          THEN [w |-> [w EXCEPT !.heap[s.current].item = item], ret |-> "false"]
          ELSE [w |-> SpliceNew(w, l, s.update, item, key, context, newLevel,
                                newLevel),
                ret |-> "true"]

\* Insert of ZeroCopySkiplist[T, K, C]: no nil check, so the key extractor
\* dereferences a nil item ("panic"); an existing key is updated in place
InsertCA(w, l, item, context, newLevel) ==
  IF item = NilItem
  THEN [w |-> w, ret |-> "panic"]
  ELSE LET key == getKeyFromItem(item)
           s   == locateCA(w, l, key)
       IN IF s.current # Nil /\ cmpKey(w.heap[s.current].key, key) = 0
          THEN [w |-> [w EXCEPT !.heap[s.current].item = item,
                                !.heap[s.current].context = context],
                ret |-> "false"]
          ELSE [w |-> SpliceNew(w, l, s.update, item, key, context, newLevel,
                                newLevel),
                ret |-> "true"]

(***************************************************************************)
(* Delete.                                                                 *)
(***************************************************************************)
\* Delete that takes the node out of the level-0 chain only
Unlink_LevelZeroOnly(h, current, update, i, n) ==
  [h EXCEPT ![update[1]].forward[1] = h[current].forward[1]]

RECURSIVE Unlink(_, _, _, _, _)
\* for i := 0; i < n; i++ { update[i].forward[i] = current.forward[i] }
Unlink(h, current, update, i, n) ==
  IF i >= n
  THEN h
  ELSE Unlink([h EXCEPT ![update[i + 1]].forward[i + 1] = h[current].forward[i + 1]],
              current, update, i + 1, n)

\* Delete that leaves the backward link of the next node as it is
UnlinkBackward_Keeps(h, current) == h

\* if current.forward[0] != nil { current.forward[0].backward = current.backward }
UnlinkBackward(h, current) ==
  LET nxt == h[current].forward[1]
  IN IF nxt # Nil THEN [h EXCEPT ![nxt].backward = h[current].backward] ELSE h

\* Delete without the loop that lowers sl.level
ShrinkLevel_Keeps(h, header, level) == level

RECURSIVE ShrinkLevel(_, _, _)
\* for sl.level > 0 && sl.header.forward[sl.level] == nil { sl.level-- }
ShrinkLevel(h, header, level) ==
  IF level > 0 /\ h[header].forward[level + 1] = Nil
  THEN ShrinkLevel(h, header, level - 1)
  ELSE level

\* the garbage collector: the object n is reclaimed once no forward or
\* backward link of another object refers to it
Collect(h, n) ==
  IF \A id \in NodeIds \ {n} :
       /\ h[id].backward # n
       /\ \A i \in 1..Len(h[id].forward) : h[id].forward[i] # n
  THEN [h EXCEPT ![n] = NoNode]
  ELSE h

\* Remove that forgets sl.length--
Remove_KeepLength(w, l, update, current, n) ==
  LET sl == w.lists[l]
      h1 == Unlink(w.heap, current, update, 0, n)
      h2 == UnlinkBackward(h1, current)
      h3 == Collect(h2, current)
  IN [heap  |-> h3,
      lists |-> [w.lists EXCEPT
                   ![l].level = ShrinkLevel(h2, sl.header, sl.level)]]

\* Remove that forgets to lower sl.level
Remove_KeepLevel(w, l, update, current, n) ==
  LET sl == w.lists[l]
      h1 == Unlink(w.heap, current, update, 0, n)
      h2 == UnlinkBackward(h1, current)
      h3 == Collect(h2, current)
  IN [heap  |-> h3,
      lists |-> [w.lists EXCEPT ![l].length = sl.length - 1]]

\* the part of Delete that follows the presence check: n is the number of
\* levels the loop unlinks
Remove(w, l, update, current, n) ==
  LET sl == w.lists[l]
      h1 == Unlink(w.heap, current, update, 0, n)
      h2 == UnlinkBackward(h1, current)
      h3 == Collect(h2, current)
  IN [heap  |-> h3,
      lists |-> [w.lists EXCEPT
                   ![l].level  = ShrinkLevel(h2, sl.header, sl.level),
                   ![l].length = sl.length - 1]]

\* DeleteCF whose loop stops one level early
DeleteCF_OffByOne(w, l, key) ==
  LET s == searchCF(w, l, key)
  IN IF s.current = Nil \/ cmpKey(w.heap[s.current].key, key) # 0
     THEN [w |-> w, ret |-> "false"]
     ELSE [w |-> Remove(w, l, s.update, s.current,
                        Len(w.heap[s.current].forward) - 1),
           ret |-> "true"]

\* DeleteCF that removes the candidate without comparing its key
DeleteCF_NoKeyCheck(w, l, key) ==
  LET s == searchCF(w, l, key)
  IN IF s.current = Nil
     THEN [w |-> w, ret |-> "false"]
     ELSE [w |-> Remove(w, l, s.update, s.current, Len(w.heap[s.current].forward)),
           ret |-> "true"]

\* Delete / deleteUnsafe of ZeroCopySkiplist[T, K]
DeleteCF(w, l, key) ==
  LET s == searchCF(w, l, key)
  IN IF s.current = Nil \/ cmpKey(w.heap[s.current].key, key) # 0
     THEN [w |-> w, ret |-> "false"]
     ELSE [w |-> Remove(w, l, s.update, s.current, Len(w.heap[s.current].forward)),
           ret |-> "true"]

\* Delete of ZeroCopySkiplist[T, K, C]
DeleteCA(w, l, key) ==
  LET s == locateCA(w, l, key)
  IN IF s.current = Nil \/ cmpKey(w.heap[s.current].key, key) # 0
     THEN [w |-> w, ret |-> "false"]
     ELSE [w |-> Remove(w, l, s.update, s.current, w.heap[s.current].level + 1),
           ret |-> "true"]

(***************************************************************************)
(* Read-only operations.                                                   *)
(***************************************************************************)
\* FindCF that returns the candidate without comparing its key
FindCF_NoKeyCheck(w, l, key) == searchCF(w, l, key).current

\* Find of ZeroCopySkiplist[T, K]
FindCF(w, l, key) ==
  LET current == searchCF(w, l, key).current
  IN IF current # Nil /\ cmpKey(w.heap[current].key, key) = 0
     THEN current
     ELSE Nil

\* Find of ZeroCopySkiplist[T, K, C] (the node; the tag is the node's context)
FindCA(w, l, key) == searchCA(w, l, key)

Find(v, w, l, key) == IF v = "CF" THEN FindCF(w, l, key) ELSE FindCA(w, l, key)

Length(w, l) == w.lists[l].length
IsEmpty(w, l) == w.lists[l].length = 0
First(w, l) == w.heap[w.lists[l].header].forward[1]
\* ItemPtr.Next / ItemPtr.Prev
RECURSIVE RunOut(_, _, _)
\* for current.forward[i] != nil { current = current.forward[i] }
RunOut(h, current, i) ==
  LET nxt == h[current].forward[i + 1]
  IN IF nxt # Nil THEN RunOut(h, nxt, i) ELSE current

RECURSIVE ToEnd_AboveZero(_, _, _)
\* ToEnd that stops above level 0
ToEnd_AboveZero(h, current, i) ==
  IF i < 1 THEN current ELSE ToEnd_AboveZero(h, RunOut(h, current, i), i - 1)

RECURSIVE ToEnd(_, _, _)
\* for i := sl.level; i >= 0; i-- { ... }
ToEnd(h, current, i) ==
  IF i < 0 THEN current ELSE ToEnd(h, RunOut(h, current, i), i - 1)

\* Last of ZeroCopySkiplist[T, K]
LastCF(w, l) ==
  LET sl == w.lists[l]
  IN IF sl.length = 0 THEN Nil ELSE ToEnd(w.heap, sl.header, sl.level)

\* Last of ZeroCopySkiplist[T, K, C]
LastCA(w, l) ==
  LET sl == w.lists[l]
      current == ToEnd(w.heap, sl.header, sl.level)
  IN IF current = sl.header THEN Nil ELSE current

Last(v, w, l) == IF v = "CF" THEN LastCF(w, l) ELSE LastCA(w, l)

NextOf(w, n) == w.heap[n].forward[1]
PrevOf(w, n) == w.heap[n].backward

RECURSIVE Chain(_, _, _, _)
\* the nodes met from n on by following forward[i], at most fuel of them
Chain(h, n, i, fuel) ==
  IF n = Nil \/ fuel = 0
  THEN <<>>
  ELSE <<n>> \o (IF Len(h[n].forward) > i
                 THEN Chain(h, h[n].forward[i + 1], i, fuel - 1)
                 ELSE <<>>)

\* the traversal First(), Next(), Next(), ... of index l; a traversal longer
\* than MaxKey nodes is cut after MaxKey + 1
Traversal(w, l) == Chain(w.heap, First(w, l), 0, MaxKey + 1)

(***************************************************************************)
(* Merge.                                                                  *)
(***************************************************************************)
MergeTheirs == 0
MergeOurs == 1
MergeError == 2
Strategies == {MergeTheirs, MergeOurs, MergeError}

RECURSIVE MergeLoopCF(_, _, _, _, _)
\* for current := other.header.forward[0]; current != nil; current = current.forward[0]
\* lvls[key] is the level randomLevel() draws when key is inserted
MergeLoopCF(w, l, current, strategy, lvls) ==
  IF current = Nil
  THEN [w |-> w, ret |-> "nil"]
  ELSE
    LET key  == w.heap[current].key
        item == w.heap[current].item
        existing == searchCF(w, l, key).current
        hasConflict == existing # Nil /\ cmpKey(w.heap[existing].key, key) = 0
    IN IF hasConflict
       THEN IF strategy = MergeTheirs
            THEN LET d == DeleteCF(w, l, key)
                     r == InsertCF(d.w, l, item, lvls[key])
                 IN IF r.ret # "true"
                    THEN [w |-> r.w, ret |-> "failed to insert item during merge"]
                    ELSE MergeLoopCF(r.w, l, r.w.heap[current].forward[1],
                                     strategy, lvls)
            ELSE IF strategy = MergeOurs
            THEN MergeLoopCF(w, l, w.heap[current].forward[1], strategy, lvls)
            ELSE IF strategy = MergeError
            THEN [w |-> w, ret |-> "key conflict detected during merge"]
            ELSE [w |-> w, ret |-> "invalid merge strategy"]
       ELSE LET r == InsertCF(w, l, item, lvls[key])
            IN IF r.ret # "true"
               THEN [w |-> r.w, ret |-> "failed to insert item during merge"]
               ELSE MergeLoopCF(r.w, l, r.w.heap[current].forward[1],
                                strategy, lvls)

\* MergeCF that treats every strategy as MergeTheirs
MergeCF_AlwaysTheirs(w, l, other, strategy, lvls) ==
  IF w.lists[l].maxLevel # w.lists[other].maxLevel
  THEN [w |-> w,
        ret |-> "cannot merge skiplists with different maxLevel configurations"]
  ELSE MergeLoopCF(w, l, First(w, other), MergeTheirs, lvls)

\* MergeCF that looks for conflicts before it inserts anything
MergeCF_ErrorUpFront(w, l, other, strategy, lvls) ==
  IF w.lists[l].maxLevel # w.lists[other].maxLevel
  THEN [w |-> w,
        ret |-> "cannot merge skiplists with different maxLevel configurations"]
  ELSE IF /\ strategy = MergeError
          /\ \E k \in Keys : FindCF(w, l, k) # Nil /\ FindCF(w, other, k) # Nil
  THEN [w |-> w, ret |-> "key conflict detected during merge"]
  ELSE MergeLoopCF(w, l, First(w, other), strategy, lvls)

\* MergeCF that empties other once it has gone through it
MergeCF_Draining(w, l, other, strategy, lvls) ==
  IF w.lists[l].maxLevel # w.lists[other].maxLevel
  THEN [w |-> w,
        ret |-> "cannot merge skiplists with different maxLevel configurations"]
  ELSE LET r == MergeLoopCF(w, l, First(w, other), strategy, lvls)
       IN [w   |-> [r.w EXCEPT !.lists[other].length = 0],
           ret |-> r.ret]

\* Merge of ZeroCopySkiplist[T, K] (other is a constructed index)
MergeCF(w, l, other, strategy, lvls) ==
  IF w.lists[l].maxLevel # w.lists[other].maxLevel
  THEN [w |-> w,
        ret |-> "cannot merge skiplists with different maxLevel configurations"]
  ELSE MergeLoopCF(w, l, First(w, other), strategy, lvls)

RECURSIVE MergeLoopCA(_, _, _, _, _)
\* current := other.First(); for current != nil { ...; current = current.Next() }
MergeLoopCA(w, l, current, strategy, lvls) ==
  IF current = Nil
  THEN [w |-> w, ret |-> "nil"]
  ELSE
    LET node == w.heap[current]
        existing == searchCA(w, l, node.key)
    IN IF existing # Nil
       THEN IF strategy = MergeTheirs
            THEN LET r == InsertCA(w, l, node.item, node.context, lvls[node.key])
                 IN MergeLoopCA(r.w, l, NextOf(r.w, current), strategy, lvls)
            ELSE IF strategy = MergeError
            THEN [w |-> w, ret |-> "key conflict during merge"]
            ELSE MergeLoopCA(w, l, NextOf(w, current), strategy, lvls)
       ELSE LET r == InsertCA(w, l, node.item, node.context, lvls[node.key])
            IN MergeLoopCA(r.w, l, NextOf(r.w, current), strategy, lvls)

\* Merge of ZeroCopySkiplist[T, K, C]
MergeCA(w, l, other, strategy, lvls) ==
  MergeLoopCA(w, l, First(w, other), strategy, lvls)

(***************************************************************************)
(* The state machine: one index "A" of either implementation, driven by a  *)
(* single caller through Insert, Delete and Merge.  The source of a Merge  *)
(* is an index "B" the caller builds with Insert, merges and drops.        *)
(***************************************************************************)
\* at most this many records in the source of a Merge
MaxSrcLen == 2

World == [heap |-> heap, lists |-> lists]

EmptyWorld == [heap  |-> [id \in NodeIds |-> NoNode],
               lists |-> [l \in Lists |-> NoList]]

\* the state after sl := MakeZeroCopySkiplist(...) of implementation v
Make(v) ==
  /\ variant = v
  /\ LET w == MakeZeroCopySkiplist(v, EmptyWorld, "A")
     IN heap = w.heap /\ lists = w.lists
  /\ last = [op |-> "Make", key |-> 0, item |-> NilItem, context |-> 0,
             res |-> "nil"]
  /\ held = [k \in Keys |-> NilItem]
  /\ threads = [t \in Threads |-> Idle]
  /\ locks = [l \in Lists |-> FreeLock]

InitCF == Make("CF")
InitCA == Make("CA")

\* the levels randomLevel() can return on index l
Levels(l) == randomLevel(variant, lists[l].maxLevel)

\* the world and the return value r of the call op(key | item, context)
\* become the next state
Returns(op, key, item, context, r) ==
  /\ heap' = r.w.heap
  /\ lists' = r.w.lists
  /\ last' = [op |-> op, key |-> key, item |-> item, context |-> context,
              res |-> r.ret]
  /\ UNCHANGED <<variant, threads, locks>>

\* history of Insert(item): the context-free index keeps the record it
\* has, the context-aware one takes the new record
HeldAfterInsert(item) ==
  IF item = NilItem THEN held
  ELSE LET key == getKeyFromItem(item)
       IN IF variant = "CF" /\ held[key] # NilItem
          THEN held
          ELSE [held EXCEPT ![key] = item]

\* sl.Insert(item) on ZeroCopySkiplist[T, K], randomLevel() drawing newLevel
InsertStep(item, newLevel) ==
  /\ variant = "CF"
  /\ Returns("Insert", getKeyFromItem(item), item, 0,
             InsertCF(World, "A", item, newLevel))
  /\ held' = HeldAfterInsert(item)

DoInsert ==
  \E item \in Items \cup {NilItem}, newLevel \in Levels("A") :
    InsertStep(item, newLevel)

\* sl.Insert(item, context) on ZeroCopySkiplist[T, K, C]
InsertContextStep(item, context, newLevel) ==
  /\ variant = "CA"
  /\ Returns("Insert", getKeyFromItem(item), item, context,
             InsertCA(World, "A", item, context, newLevel))
  /\ held' = HeldAfterInsert(item)

DoInsertContext ==
  \E item \in Items \cup {NilItem}, context \in Contexts,
     newLevel \in Levels("A") :
    InsertContextStep(item, context, newLevel)

\* sl.Delete(key) on ZeroCopySkiplist[T, K]
DeleteStep(key) ==
  /\ variant = "CF"
  /\ Returns("Delete", key, NilItem, 0, DeleteCF(World, "A", key))
  /\ held' = [held EXCEPT ![key] = NilItem]

DoDelete == \E key \in Keys : DeleteStep(key)

\* sl.Delete(key) on ZeroCopySkiplist[T, K, C]
DeleteContextStep(key) ==
  /\ variant = "CA"
  /\ Returns("Delete", key, NilItem, 0, DeleteCA(World, "A", key))
  /\ held' = [held EXCEPT ![key] = NilItem]

DoDeleteContext == \E key \in Keys : DeleteContextStep(key)

\* the records of a Merge source: the second record of each key, tag 1
SrcItem(k) == <<k, 2>>
SrcContext == CHOOSE c \in Contexts : c # 0
SrcKeySets == {S \in SUBSET Keys : Cardinality(S) <= MaxSrcLen}

RECURSIVE BuildSource(_, _, _, _)
\* other := MakeZeroCopySkiplist(...); other.Insert(...) for the keys of S;
\* the node of key k draws level lvls[k]
BuildSource(v, w, S, lvls) ==
  IF S = {}
  THEN MakeZeroCopySkiplist(v, w, "B")
  ELSE LET k  == CHOOSE x \in S : \A y \in S : y <= x
           w1 == BuildSource(v, w, S \ {k}, lvls)
       IN IF v = "CF"
          THEN InsertCF(w1, "B", SrcItem(k), lvls[k]).w
          ELSE InsertCA(w1, "B", SrcItem(k), SrcContext, lvls[k]).w

\* history of a Merge, from its documented contract
HeldAfterMerge(S, strategy) ==
  LET conflicts == {k \in S : held[k] # NilItem}
      stop == IF strategy = MergeError /\ conflicts # {}
              THEN CHOOSE x \in conflicts : \A y \in conflicts : x <= y
              ELSE MaxKey + 1
  IN [k \in Keys |->
        IF k \in S /\ k < stop /\ (held[k] = NilItem \/ strategy = MergeTheirs)
        THEN SrcItem(k)
        ELSE held[k]]

\* the world after other is built, merged into "A" and dropped
Merged(r) == [w |-> DropList(r.w, "B"), ret |-> r.ret]

\* sl.Merge(other, strategy) on ZeroCopySkiplist[T, K]; other holds the keys S
MergeStep(S, strategy, lvls) ==
  /\ variant = "CF"
  /\ Returns("Merge", 0, NilItem, 0,
             Merged(MergeCF(BuildSource("CF", World, S, lvls),
                            "A", "B", strategy, lvls)))
  /\ held' = HeldAfterMerge(S, strategy)

DoMerge ==
  \E S \in SrcKeySets, strategy \in Strategies :
    \E lvls \in [S -> Levels("A")] : MergeStep(S, strategy, lvls)

\* sl.Merge(other, strategy) on ZeroCopySkiplist[T, K, C]
MergeContextStep(S, strategy, lvls) ==
  /\ variant = "CA"
  /\ Returns("Merge", 0, NilItem, 0,
             Merged(MergeCA(BuildSource("CA", World, S, lvls),
                            "A", "B", strategy, lvls)))
  /\ held' = HeldAfterMerge(S, strategy)

DoMergeContext ==
  \E S \in SrcKeySets, strategy \in Strategies :
    \E lvls \in [S -> Levels("A")] : MergeContextStep(S, strategy, lvls)

NextCF == DoInsert \/ DoDelete \/ DoMerge
NextCA == DoInsertContext \/ DoDeleteContext \/ DoMergeContext

\* the context-free index, ZeroCopySkiplist[T, K]
SpecCF == InitCF /\ [][NextCF]_vars
\* the context-aware index, ZeroCopySkiplist[T, K, C]
SpecCA == InitCA /\ [][NextCA]_vars

\* either implementation
Init == InitCF \/ InitCA
Next == NextCF \/ NextCA
Spec == Init /\ [][Next]_vars

(***************************************************************************)
(* Merge with its source in view: the caller builds the source "B" with a  *)
(* maxLevel and a tag of its choice, calls sl.Merge(other, strategy) and   *)
(* then lets go of the source.  last.op is the caller's position.          *)
(***************************************************************************)
\* the maxLevel arguments of the source: that of "A", or one more
SrcMaxLevels(v) == {ConfigMaxLevel(v), ConfigMaxLevel(v) + 1}

\* the tags of the source records; the context-free index has none
SrcContexts(v) == IF v = "CF" THEN {0} ELSE Contexts

RECURSIVE BuildOther(_, _, _, _, _, _)
\* other := MakeZeroCopySkiplist(maxLevel, ...); other.Insert(item, context)
\* for the keys of S; the node of key k draws level lvls[k]
BuildOther(v, w, S, lvls, maxLevel, context) ==
  IF S = {}
  THEN IF v = "CF" THEN MakeZeroCopySkiplistCF(w, "B", maxLevel)
                   ELSE MakeZeroCopySkiplistCA(w, "B", maxLevel)
  ELSE LET k  == CHOOSE x \in S : \A y \in S : y <= x
           w1 == BuildOther(v, w, S \ {k}, lvls, maxLevel, context)
       IN IF v = "CF"
          THEN InsertCF(w1, "B", SrcItem(k), lvls[k]).w
          ELSE InsertCA(w1, "B", SrcItem(k), context, lvls[k]).w

\* sl.Merge(other, strategy) of implementation v
Merge(v, w, l, other, strategy, lvls) ==
  IF v = "CF" THEN MergeCF(w, l, other, strategy, lvls)
              ELSE MergeCA(w, l, other, strategy, lvls)

\* the records index l holds, by key
HeldIn(v, w, l) ==
  [k \in Keys |-> LET f == Find(v, w, l, k)
                  IN IF f = Nil THEN NilItem ELSE w.heap[f].item]

\* the caller has a source at hand
OtherBuilt == lists["B"] # NoList

\* the keys of the nodes of the source
OtherKeys == {k \in Keys : heap[<<"B", k>>] # NoNode}

\* w is the next world
Becomes(w) == heap' = w.heap /\ lists' = w.lists

\* other := MakeZeroCopySkiplist(maxLevel, ...) and its Inserts
BuildStep(S, lvls, maxLevel, context) ==
  /\ ~OtherBuilt
  /\ Becomes(BuildOther(variant, World, S, lvls, maxLevel, context))
  /\ last' = [op |-> "Build", key |-> 0, item |-> NilItem, context |-> 0,
              res |-> "nil"]
  /\ UNCHANGED <<variant, held, threads, locks>>

DoBuild ==
  \E S \in SrcKeySets, maxLevel \in SrcMaxLevels(variant),
     context \in SrcContexts(variant) :
    \E lvls \in [S -> randomLevel(variant, maxLevel)] :
      BuildStep(S, lvls, maxLevel, context)

\* the return of sl.Merge(other, strategy); last.had keeps the keys the
\* destination had when the call was made
MergeReturns(strategy, r) ==
  /\ Becomes(r.w)
  /\ last' = [op |-> "Merge", key |-> 0, item |-> NilItem, context |-> 0,
              res |-> r.ret, strategy |-> strategy,
              had |-> {k \in Keys : HeldIn(variant, World, "A")[k] # NilItem}]
  /\ held' = HeldIn(variant, r.w, "A")
  /\ UNCHANGED <<variant, threads, locks>>

\* sl.Merge(other, strategy); lvls are the levels randomLevel() draws
MergeOtherStep(strategy, lvls) ==
  /\ OtherBuilt
  /\ last.op = "Build"
  /\ MergeReturns(strategy, Merge(variant, World, "A", "B", strategy, lvls))

DoMergeOther ==
  \E strategy \in Strategies :
    \E lvls \in [OtherKeys -> Levels("A")] : MergeOtherStep(strategy, lvls)

\* the caller lets go of other
DoDrop ==
  /\ OtherBuilt
  /\ last.op = "Merge"
  /\ Becomes(DropList(World, "B"))
  /\ last' = [op |-> "Drop", key |-> 0, item |-> NilItem, context |-> 0,
              res |-> "nil"]
  /\ UNCHANGED <<variant, held, threads, locks>>

NextMergeCF ==
  \/ ~OtherBuilt /\ DoInsert
  \/ ~OtherBuilt /\ DoDelete
  \/ DoBuild
  \/ DoMergeOther
  \/ DoDrop

NextMergeCA ==
  \/ ~OtherBuilt /\ DoInsertContext
  \/ ~OtherBuilt /\ DoDeleteContext
  \/ DoBuild
  \/ DoMergeOther
  \/ DoDrop

SpecMergeCF == InitCF /\ [][NextMergeCF]_vars
SpecMergeCA == InitCA /\ [][NextMergeCA]_vars

(***************************************************************************)
(* Goroutines.  Each goroutine makes one call; a call is a sequence of     *)
(* steps, one for every lock operation that can block and one for the      *)
(* code that runs between two of them.  threads[t].pos is the position:    *)
(*   lock, drain   sl.mu.Lock(): taking the writer's turn, then waiting    *)
(*                 for the read locks to be released                       *)
(*   write         the code under the write lock, up to Unlock()           *)
(*   rlock, read   sl.mu.RLock(), then the code up to RUnlock()            *)
(*   rsrc          other.mu.RLock() of Merge                               *)
(*   rlock2, first the RLock() of the nested First()                       *)
(*   search        the RLock() of the nested search()                      *)
(***************************************************************************)
\* the record a goroutine inserts under key k
OwnItem(k) == <<k, 1>>

\* sync.RWMutex: RLock() blocks while a writer is in Lock() or holds the
\* lock; Lock() takes the writers' turn, then waits until no read lock is
\* held
CanRLock(l) == locks[l].w = 0
CanLock(l) == locks[l].w = 0
Drained(l) == \A u \in Threads : locks[l].readers[u] = 0
RLock(lk, l, t) == [lk EXCEPT ![l].readers[t] = @ + 1]
RUnlock(lk, l, t) == [lk EXCEPT ![l].readers[t] = @ - 1]
Lock(lk, l, t) == [lk EXCEPT ![l].w = t]
Unlock(lk, l, t) == [lk EXCEPT ![l].w = 0]

\* the calls a goroutine can make on "A" that change it / only read it
Writes(v) ==
  {[Idle EXCEPT !.op = "Insert", !.pos = "lock", !.key = k,
                !.item = OwnItem(k), !.context = c] :
     k \in Keys, c \in SrcContexts(v)}
  \cup {[Idle EXCEPT !.op = "Delete", !.pos = "lock", !.key = k] : k \in Keys}

Reads ==
  {[Idle EXCEPT !.op = "Find", !.pos = "rlock", !.key = k] : k \in Keys}
  \cup {[Idle EXCEPT !.op = o, !.pos = "rlock"] :
          o \in {"First", "Last", "Length", "IsEmpty", "Copy"}}

\* dst.Merge(src, strategy): the context-free Merge compares the maxLevels
\* before it locks, the context-aware one starts with other.rw.RLock()
Merges(v) ==
  {[Idle EXCEPT !.op = "Merge", !.dst = d, !.src = IF d = "A" THEN "B" ELSE "A",
                !.strategy = st,
                !.pos = IF v = "CA" THEN "rsrc"
                        ELSE IF lists[d].maxLevel
                                  # lists[IF d = "A" THEN "B" ELSE "A"].maxLevel
                        THEN "done" ELSE "lock",
                !.res = IF v = "CF" /\ lists[d].maxLevel
                                  # lists[IF d = "A" THEN "B" ELSE "A"].maxLevel
                        THEN "cannot merge skiplists with different maxLevel configurations"
                        ELSE "nil"] :
     d \in Lists, st \in Strategies}

\* thread t becomes c, nothing else changes
Moves(t, c) == threads' = [threads EXCEPT ![t] = c]

\* goroutine t calls c
Call(t, c) ==
  /\ threads[t].pos = "idle"
  /\ Moves(t, c)
  /\ UNCHANGED <<variant, heap, lists, last, held, locks>>

\* the index the RLock() at position pos is taken on
RLockOn(c) == IF c.pos \in {"rsrc", "first"} THEN c.src ELSE c.dst

\* the position after the RLock() at position pos
AfterRLock(v, c) ==
  IF c.pos = "rlock" THEN (IF c.op = "Copy" /\ v = "CA" THEN "rlock2" ELSE "read")
  ELSE IF c.pos = "rlock2" THEN "read"
  ELSE IF c.pos = "rsrc" THEN (IF v = "CF" THEN "write" ELSE "first")
  ELSE IF c.pos = "first" THEN "firstread"
  ELSE "searchread"

\* sl.mu.RLock() returns
DoRLock(t) ==
  LET c == threads[t]
  IN /\ c.pos \in {"rlock", "rlock2", "rsrc", "first", "search"}
     /\ CanRLock(RLockOn(c))
     /\ locks' = RLock(locks, RLockOn(c), t)
     /\ Moves(t, [c EXCEPT !.pos = AfterRLock(variant, c)])
     /\ UNCHANGED <<variant, heap, lists, last, held>>

\* sl.mu.Lock() takes the writers' turn: from now on RLock() blocks
DoLock(t) ==
  LET c == threads[t]
  IN /\ c.pos = "lock"
     /\ CanLock(c.dst)
     /\ locks' = Lock(locks, c.dst, t)
     /\ Moves(t, [c EXCEPT !.pos = "drain"])
     /\ UNCHANGED <<variant, heap, lists, last, held>>

\* sl.mu.Lock() returns once the read locks are released
DoDrain(t) ==
  LET c == threads[t]
  IN /\ c.pos = "drain"
     /\ Drained(c.dst)
     /\ Moves(t, [c EXCEPT !.pos = IF c.op = "Merge" /\ variant = "CF"
                                   THEN "rsrc" ELSE "write"])
     /\ UNCHANGED <<variant, heap, lists, last, held, locks>>

\* sl.Insert(item, context) / sl.Delete(key) of implementation v
Insert(v, w, l, item, context, newLevel) ==
  IF v = "CF" THEN InsertCF(w, l, item, newLevel)
              ELSE InsertCA(w, l, item, context, newLevel)

Delete(v, w, l, key) ==
  IF v = "CF" THEN DeleteCF(w, l, key) ELSE DeleteCA(w, l, key)

\* the call c of t returns r under the write lock and releases it
WriteReturns(t, c, r) ==
  /\ Becomes(r.w)
  /\ Moves(t, [c EXCEPT !.pos = "done", !.res = r.ret])
  /\ locks' = Unlock(locks, c.dst, t)
  /\ UNCHANGED <<variant, last>>

\* Insert, from the lock to the deferred Unlock()
InsertBody(t, newLevel) ==
  LET c == threads[t]
  IN /\ c.op = "Insert"
     /\ c.pos = "write"
     /\ WriteReturns(t, c, Insert(variant, World, c.dst, c.item, c.context,
                                  newLevel))
     /\ held' = HeldAfterInsert(c.item)

\* Delete, from the lock to the deferred Unlock()
DeleteBody(t) ==
  LET c == threads[t]
  IN /\ c.op = "Delete"
     /\ c.pos = "write"
     /\ WriteReturns(t, c, Delete(variant, World, c.dst, c.key))
     /\ held' = [held EXCEPT ![c.key] = NilItem]

\* the read-only call op of t returns under the read lock and releases it;
\* Copy of ZeroCopySkiplist[T, K, C] also releases the lock of its First()
ReadReturns(t, op, cur, val, res) ==
  LET c == threads[t]
      lk == RUnlock(locks, c.dst, t)
  IN /\ c.op = op
     /\ c.pos = "read"
     /\ Moves(t, [c EXCEPT !.pos = "done", !.cur = cur, !.val = val,
                           !.res = res])
     /\ locks' = IF op = "Copy" /\ variant = "CA"
                 THEN RUnlock(lk, c.dst, t) ELSE lk
     /\ UNCHANGED <<variant, heap, lists, last, held>>

FindBody(t) ==
  LET f == Find(variant, World, threads[t].dst, threads[t].key)
  IN ReadReturns(t, "Find", f, IF f = Nil THEN 0 ELSE heap[f].context, "nil")

FirstBody(t) ==
  ReadReturns(t, "First", First(World, threads[t].dst), 0, "nil")

LastBody(t) ==
  ReadReturns(t, "Last", Last(variant, World, threads[t].dst), 0, "nil")

LengthBody(t) ==
  ReadReturns(t, "Length", Nil, Length(World, threads[t].dst), "nil")

IsEmptyBody(t) ==
  ReadReturns(t, "IsEmpty", Nil, 0,
              IF IsEmpty(World, threads[t].dst) THEN "true" ELSE "false")

\* Copy goes through the level-0 chain under the read lock and inserts
\* into an index of its own; val is the number of records it met
CopyBody(t) ==
  ReadReturns(t, "Copy", Nil, Len(Traversal(World, threads[t].dst)), "nil")

\* the records of "A" after a step on index l that leaves the world w
HeldBy(l, w) == IF l = "A" THEN HeldIn(variant, w, "A") ELSE held

\* Merge of ZeroCopySkiplist[T, K]: the loop, under the write lock of sl and
\* the read lock of other, to the deferred RUnlock() and Unlock()
MergeReturnsCF(t, c, r) ==
  /\ Becomes(r.w)
  /\ Moves(t, [c EXCEPT !.pos = "done", !.res = r.ret, !.begun = TRUE])
  /\ locks' = Unlock(RUnlock(locks, c.src, t), c.dst, t)
  /\ held' = HeldBy(c.dst, r.w)
  /\ UNCHANGED <<variant, last>>

MergeBodyCF(t, lvls) ==
  LET c == threads[t]
  IN /\ c.op = "Merge"
     /\ c.pos = "write"
     /\ variant = "CF"
     /\ MergeReturnsCF(t, c, MergeLoopCF(World, c.dst, First(World, c.src),
                                         c.strategy, lvls))

\* the position of the context-aware Merge when its loop reaches cur
LoopAt(cur) == IF cur = Nil THEN "end" ELSE "search"

\* Merge of ZeroCopySkiplist[T, K, C]: current := other.First() returns
MergeFirst(t) ==
  LET c == threads[t]
      cur == First(World, c.src)
  IN /\ c.pos = "firstread"
     /\ Moves(t, [c EXCEPT !.cur = cur, !.pos = LoopAt(cur)])
     /\ locks' = RUnlock(locks, c.src, t)
     /\ UNCHANGED <<variant, heap, lists, last, held>>

\* existing, _ := sl.search(current.key) returns, and the switch on it
MergeSearch(t) ==
  LET c == threads[t]
      existing == searchCA(World, c.dst, heap[c.cur].key)
      nxt == NextOf(World, c.cur)
      insert == existing = Nil \/ c.strategy = MergeTheirs
      fail == existing # Nil /\ c.strategy = MergeError
  IN /\ c.pos = "searchread"
     /\ Moves(t, IF insert THEN [c EXCEPT !.pos = "lock", !.begun = TRUE]
                 ELSE IF fail
                 THEN [c EXCEPT !.pos = "done", !.begun = TRUE,
                                !.res = "key conflict during merge"]
                 ELSE [c EXCEPT !.pos = LoopAt(nxt), !.cur = nxt,
                                !.begun = TRUE])
     /\ locks' = IF fail THEN RUnlock(RUnlock(locks, c.dst, t), c.src, t)
                 ELSE RUnlock(locks, c.dst, t)
     /\ UNCHANGED <<variant, heap, lists, last, held>>

\* sl.Insert(current.item, current.context) under the write lock, Unlock(),
\* current = current.Next()
MergeInsertReturns(t, c, r) ==
  /\ Becomes(r.w)
  /\ Moves(t, [c EXCEPT !.cur = NextOf(r.w, c.cur),
                        !.pos = LoopAt(NextOf(r.w, c.cur))])
  /\ locks' = Unlock(locks, c.dst, t)
  /\ held' = HeldBy(c.dst, r.w)
  /\ UNCHANGED <<variant, last>>

MergeInsert(t, newLevel) ==
  LET c == threads[t]
  IN /\ c.op = "Merge"
     /\ c.pos = "write"
     /\ variant = "CA"
     /\ MergeInsertReturns(t, c, InsertCA(World, c.dst, heap[c.cur].item,
                                          heap[c.cur].context, newLevel))

\* return nil, with the deferred other.rw.RUnlock()
MergeEnd(t) ==
  LET c == threads[t]
  IN /\ c.pos = "end"
     /\ Moves(t, [c EXCEPT !.pos = "done", !.res = "nil"])
     /\ locks' = RUnlock(locks, c.src, t)
     /\ UNCHANGED <<variant, heap, lists, last, held>>

(***************************************************************************)
(* Two goroutines on two populated indexes: each makes one call out of     *)
(* Insert, Delete, the read-only calls, A.Merge(B, s) and B.Merge(A, s).   *)
(***************************************************************************)
\* at most this many records in an index when the goroutines start
MaxInit == 1
InitKeySets == {S \in SUBSET Keys : Cardinality(S) <= MaxInit}

\* "A" starts with first records, "B" with second ones
ItemIn(l, k) == IF l = "A" THEN OwnItem(k) ELSE SrcItem(k)

RECURSIVE Populated(_, _, _, _, _, _)
\* l := MakeZeroCopySkiplist(...); l.Insert(item, context) for the keys of S
Populated(v, w, l, S, lvls, context) ==
  IF S = {}
  THEN MakeZeroCopySkiplist(v, w, l)
  ELSE LET k == CHOOSE x \in S : \A y \in S : y <= x
       IN Insert(v, Populated(v, w, l, S \ {k}, lvls, context), l,
                 ItemIn(l, k), context, lvls[k]).w

\* the goroutines are about to start on the world w
Starts(v, w) ==
  /\ variant = v
  /\ heap = w.heap
  /\ lists = w.lists
  /\ last = [op |-> "Make", key |-> 0, item |-> NilItem, context |-> 0,
             res |-> "nil"]
  /\ held = HeldIn(v, w, "A")
  /\ threads = [t \in Threads |-> Idle]
  /\ locks = [l \in Lists |-> FreeLock]

InitConc ==
  \E v \in Variants, SA \in InitKeySets, SB \in InitKeySets :
    \E la \in [SA -> randomLevel(v, ConfigMaxLevel(v))],
       lb \in [SB -> randomLevel(v, ConfigMaxLevel(v))] :
      Starts(v, Populated(v, Populated(v, EmptyWorld, "A", SA, la, 0),
                          "B", SB, lb, IF v = "CF" THEN 0 ELSE SrcContext))

\* the keys of the nodes of index l
KeysAt(l) == {k \in Keys : heap[<<l, k>>] # NoNode}

\* the goroutines that take part
Callers == 1..(MaxThreads - 1)

DoCall == \E t \in Callers, c \in Writes(variant) \cup Reads \cup Merges(variant) : Call(t, c)
DoInsertBody ==
  \E t \in Threads : \E newLevel \in Levels(threads[t].dst) :
    InsertBody(t, newLevel)
DoMergeBodyCF ==
  \E t \in Threads :
    \E lvls \in [KeysAt(threads[t].src) -> Levels(threads[t].dst)] :
      MergeBodyCF(t, lvls)
DoMergeInsert ==
  \E t \in Threads : \E newLevel \in Levels(threads[t].dst) :
    MergeInsert(t, newLevel)

\* a step inside a call that reads or writes "A" only
StepOnOne ==
  \/ \E t \in Threads : DoRLock(t)
  \/ \E t \in Threads : DoLock(t)
  \/ \E t \in Threads : DoDrain(t)
  \/ DoInsertBody
  \/ \E t \in Threads : FindBody(t)
  \/ \E t \in Threads : FirstBody(t)
  \/ \E t \in Threads : LastBody(t)
  \/ \E t \in Threads : LengthBody(t)
  \/ \E t \in Threads : IsEmptyBody(t)
  \/ \E t \in Threads : CopyBody(t)

NextConc ==
  \/ DoCall
  \/ StepOnOne
  \/ \E t \in Threads : DeleteBody(t)
  \/ DoMergeBodyCF
  \/ \E t \in Threads : MergeFirst(t)
  \/ \E t \in Threads : MergeSearch(t)
  \/ DoMergeInsert
  \/ \E t \in Threads : MergeEnd(t)

SpecConc == InitConc /\ [][NextConc]_vars

(***************************************************************************)
(* Goroutines that insert and read: every goroutine calls Insert or a      *)
(* read-only operation on an index that starts empty.                      *)
(***************************************************************************)
Inserts(v) == {c \in Writes(v) : c.op = "Insert"}

DoCallInsertOrRead ==
  \E t \in Threads, c \in Inserts(variant) \cup Reads : Call(t, c)

NextInserters == DoCallInsertOrRead \/ StepOnOne

SpecInserters == Init /\ [][NextInserters]_vars

(***************************************************************************)
(* Observations used by the properties.                                    *)
(***************************************************************************)
\* the world after the step
WorldP == [heap |-> heap', lists |-> lists']

KeysOf(w, c) == [j \in 1..Len(c) |-> w.heap[c[j]].key]
ItemsOf(w, c) == [j \in 1..Len(c) |-> w.heap[c[j]].item]

\* key is the key of a node of the traversal
Present(w, l, key) ==
  \E j \in 1..Len(Traversal(w, l)) : w.heap[Traversal(w, l)[j]].key = key

\* the links and counters of the whole world
Links(w) == [lists |-> w.lists,
             forward |-> [id \in NodeIds |-> w.heap[id].forward],
             backward |-> [id \in NodeIds |-> w.heap[id].backward]]

\* everything of index l: its fields and its objects
IndexOf(w, l) ==
  [list  |-> w.lists[l],
   nodes |-> [id \in {n \in NodeIds : n[1] = l} |-> w.heap[id]]]

\* the keys index l holds
KeySetOf(v, w, l) == {k \in Keys : HeldIn(v, w, l)[k] # NilItem}

\* the sequence q without its elements equal to x
Without(q, x) == SelectSeq(q, LAMBDA y : y # x)

(***************************************************************************)
(* C1.  After any sequence of Insert, Delete and Merge, following          *)
(* forward[0] from the header yields nodes in strictly increasing key      *)
(* order per the comparator; no two reachable nodes have equal keys.       *)
(***************************************************************************)
StrictlyIncreasing(q) ==
  \A j \in 1..(Len(q) - 1) : cmpKey(q[j], q[j + 1]) < 0

C1_Ordered ==
  LET c == Traversal(World, "A")
  IN /\ Len(c) <= MaxKey
     /\ StrictlyIncreasing(KeysOf(World, c))

\* a Merge has returned and left three nodes in the index
C1_Witness ==
  /\ last.op = "Merge"
  /\ last.res = "nil"
  /\ Len(Traversal(World, "A")) >= 3

(***************************************************************************)
(* C2.  For every pair of adjacent nodes (A, B) in level-0 forward order   *)
(* B.Prev() = A and A.Next() = B; the first node's Prev() is nil (never    *)
(* the header) and the last node's Next() is nil.                          *)
(***************************************************************************)
C2_DoublyLinked ==
  LET c == Traversal(World, "A")
  IN /\ Len(c) <= MaxKey
     /\ \A j \in 1..Len(c) :
          /\ PrevOf(World, c[j]) = IF j = 1 THEN Nil ELSE c[j - 1]
          /\ NextOf(World, c[j]) = IF j = Len(c) THEN Nil ELSE c[j + 1]

\* a Delete has returned true and left at least two nodes
C2_Witness ==
  /\ last.op = "Delete"
  /\ last.res = "true"
  /\ Len(Traversal(World, "A")) >= 2

(***************************************************************************)
(* C3.  Length() equals the number of nodes reached by iterating           *)
(* First()/Next() to the end, and IsEmpty() is true exactly when that      *)
(* number is 0.                                                            *)
(***************************************************************************)
C3_LengthCounts ==
  LET c == Traversal(World, "A")
  IN /\ Length(World, "A") = Len(c)
     /\ IsEmpty(World, "A") <=> (Len(c) = 0)

\* the index is empty again after a Delete that returned true
C3_Witness ==
  /\ last.op = "Delete"
  /\ last.res = "true"
  /\ IsEmpty(World, "A")
  /\ Traversal(World, "A") = <<>>

(***************************************************************************)
(* C4.  Find(k) returns a node if and only if k was inserted and not       *)
(* deleted since; the node returned has Key() = k and Item() is the record *)
(* currently held for k; otherwise Find returns nil.                       *)
(***************************************************************************)
C4_FindMatchesHistory ==
  \A k \in Keys :
    LET f == Find(variant, World, "A", k)
    IN IF held[k] = NilItem
       THEN f = Nil
       ELSE /\ f # Nil
            /\ heap[f].key = k
            /\ heap[f].item = held[k]

\* after a Delete, one key is found and another, deleted, is not
C4_Witness ==
  /\ last.op = "Delete"
  /\ last.res = "true"
  /\ Find(variant, World, "A", last.key) = Nil
  /\ \E k \in Keys : Find(variant, World, "A", k) # Nil

(***************************************************************************)
(* Steps, recognised by the call recorded in last'.                        *)
(***************************************************************************)
\* the step is Insert of a non-nil record whose key is absent / present
InsertsAbsent ==
  /\ last'.op = "Insert"
  /\ last'.item # NilItem
  /\ ~Present(World, "A", last'.key)

InsertsPresent ==
  /\ last'.op = "Insert"
  /\ last'.item # NilItem
  /\ Present(World, "A", last'.key)

\* the step is Delete of a key that is present / absent
DeletesPresent == last'.op = "Delete" /\ Present(World, "A", last'.key)
DeletesAbsent == last'.op = "Delete" /\ ~Present(World, "A", last'.key)

\* the step changes no object and no index
SameWorld == heap' = heap /\ lists' = lists

(***************************************************************************)
(* C5.  Insert of a non-nil record whose key is absent returns true,       *)
(* increases Length by exactly 1, makes Find(key) return a node            *)
(* referencing that very record, and leaves every previously present key   *)
(* findable with its record unchanged.                                     *)
(***************************************************************************)
C5_InsertAbsent ==
  [][InsertsAbsent =>
       /\ last'.res = "true"
       /\ Length(WorldP, "A") = Length(World, "A") + 1
       /\ LET f == Find(variant, WorldP, "A", last'.key)
          IN f # Nil /\ heap'[f].key = last'.key /\ heap'[f].item = last'.item
       /\ \A k \in Keys \ {last'.key} :
            Present(World, "A", k) =>
              LET g  == Find(variant, World, "A", k)
                  gP == Find(variant, WorldP, "A", k)
              IN g # Nil /\ gP # Nil /\ heap'[gP].item = heap[g].item]_vars

\* an Insert has returned true on an index that held other keys
C5_Witness ==
  /\ last.op = "Insert"
  /\ last.res = "true"
  /\ Find(variant, World, "A", last.key) # Nil
  /\ Length(World, "A") >= 3

(***************************************************************************)
(* C6.  Delete(k) for a present key returns true, decreases Length by      *)
(* exactly 1, makes Find(k) report not found, and leaves every other key   *)
(* present with the same record and the same relative order in the         *)
(* First()/Next() traversal.                                               *)
(***************************************************************************)
C6_DeletePresent ==
  [][DeletesPresent =>
       /\ last'.res = "true"
       /\ Length(WorldP, "A") = Length(World, "A") - 1
       /\ Find(variant, WorldP, "A", last'.key) = Nil
       /\ KeysOf(WorldP, Traversal(WorldP, "A"))
            = Without(KeysOf(World, Traversal(World, "A")), last'.key)
       /\ ItemsOf(WorldP, Traversal(WorldP, "A"))
            = SelectSeq(ItemsOf(World, Traversal(World, "A")),
                        LAMBDA it : getKeyFromItem(it) # last'.key)]_vars

\* a Delete has returned true and two other keys are still there
C6_Witness ==
  /\ last.op = "Delete"
  /\ last.res = "true"
  /\ ~Present(World, "A", last.key)
  /\ Len(Traversal(World, "A")) >= 2

(***************************************************************************)
(* C7.  Context-aware index: Insert(item, context) of a record whose key   *)
(* is already present returns false, replaces the node's record reference  *)
(* and tag with the new ones, and leaves Length, the height and every      *)
(* forward/backward link unchanged.                                        *)
(***************************************************************************)
C7_UpdateInPlace ==
  [][(variant = "CA" /\ InsertsPresent) =>
       /\ last'.res = "false"
       /\ LET f == FindCA(WorldP, "A", last'.key)
          IN /\ f # Nil
             /\ heap'[f].item = last'.item
             /\ heap'[f].context = last'.context
       /\ Links(WorldP) = Links(World)]_vars

\* an Insert has returned false and the node carries the record and the tag
\* of that call, which differ from the record and tag of the first Insert
C7_Witness ==
  /\ variant = "CA"
  /\ last.op = "Insert"
  /\ last.res = "false"
  /\ last.item = <<last.key, 2>>
  /\ last.context = 1
  /\ LET f == FindCA(World, "A", last.key)
     IN f # Nil /\ heap[f].item = last.item /\ heap[f].context = last.context
  /\ Length(World, "A") >= 2

(***************************************************************************)
(* C8.  Context-free index: Insert(item) of a record whose key is already  *)
(* present returns false and changes nothing: Find(key) still returns the  *)
(* originally inserted record, and Length, height and links are unchanged. *)
(***************************************************************************)
C8_DuplicateRejected ==
  [][(variant = "CF" /\ InsertsPresent) =>
       /\ last'.res = "false"
       /\ LET f == FindCF(WorldP, "A", last'.key)
          IN f # Nil /\ heap'[f].item = held[last'.key]
       /\ SameWorld]_vars

\* an Insert of a second record for a present key has returned false and
\* Find still returns the first record
C8_Witness ==
  /\ variant = "CF"
  /\ last.op = "Insert"
  /\ last.res = "false"
  /\ last.item # NilItem
  /\ LET f == FindCF(World, "A", last.key)
     IN f # Nil /\ heap[f].item # last.item /\ heap[f].item = held[last.key]

(***************************************************************************)
(* C9.  Insert called with a nil record returns false and leaves the index *)
(* state (length, height, all links, all records) unchanged; it never      *)
(* fails in any other way.                                                 *)
(***************************************************************************)
C9_NilRejected ==
  [][(last'.op = "Insert" /\ last'.item = NilItem) =>
       /\ last'.res = "false"
       /\ SameWorld]_vars

(***************************************************************************)
(* C10.  Delete(k) for an absent key (on an empty index, for a key never   *)
(* inserted, or as a second Delete of the same key) returns false and      *)
(* leaves length, height and all links unchanged.                          *)
(***************************************************************************)
C10_DeleteAbsent ==
  [][DeletesAbsent =>
       /\ last'.res = "false"
       /\ SameWorld]_vars

\* a Delete has returned false on an index that holds other keys
C10_Witness ==
  /\ last.op = "Delete"
  /\ last.res = "false"
  /\ ~Present(World, "A", last.key)
  /\ Length(World, "A") >= 1

(***************************************************************************)
(* C11.  After any sequence of Insert and Delete, First() returns the node *)
(* with the smallest key and Last() the node with the largest key, which   *)
(* is the node reached by following Next() from First() to the end; both   *)
(* return nil exactly when the index is empty.                             *)
(***************************************************************************)
C11_FirstLast ==
  LET c  == Traversal(World, "A")
      f  == First(World, "A")
      la == Last(variant, World, "A")
      ks == {k \in Keys : held[k] # NilItem}
  IN /\ (f = Nil) <=> (ks = {})
     /\ (la = Nil) <=> (ks = {})
     /\ IsEmpty(World, "A") <=> (ks = {})
     /\ ks # {} =>
          /\ f # Nil /\ la # Nil
          /\ \A k \in ks : heap[f].key <= k /\ k <= heap[la].key
          /\ heap[f].key \in ks /\ heap[la].key \in ks
          /\ la = c[Len(c)]

\* after a Delete the index holds two nodes or more, so First and Last differ
C11_Witness ==
  /\ last.op = "Delete"
  /\ last.res = "true"
  /\ Length(World, "A") >= 2
  /\ First(World, "A") # Last(variant, World, "A")
  /\ Last(variant, World, "A") # Nil

(***************************************************************************)
(* C16.  After a Merge(source, strategy) that returns no error with        *)
(* strategy Theirs or Ours, the destination's key set is the union of the  *)
(* two key sets and its Length is the size of that union; a key present in *)
(* only one index maps to that index's record; a key present in both maps  *)
(* to the source's record under Theirs and to the destination's prior      *)
(* record under Ours.                                                      *)
(***************************************************************************)
C16_MergeUnion ==
  [][(/\ last'.op = "Merge"
      /\ last'.strategy \in {MergeTheirs, MergeOurs}
      /\ last'.res = "nil") =>
       LET dst == HeldIn(variant, World, "A")
           src == HeldIn(variant, World, "B")
           out == HeldIn(variant, WorldP, "A")
           union == KeySetOf(variant, World, "A")
                      \cup KeySetOf(variant, World, "B")
           c == Traversal(WorldP, "A")
       IN /\ KeySetOf(variant, WorldP, "A") = union
          /\ {heap'[c[j]].key : j \in 1..Len(c)} = union
          /\ Len(c) = Cardinality(union)
          /\ Length(WorldP, "A") = Cardinality(union)
          /\ \A k \in union :
               out[k] = IF src[k] = NilItem THEN dst[k]
                        ELSE IF dst[k] = NilItem THEN src[k]
                        ELSE IF last'.strategy = MergeTheirs THEN src[k]
                        ELSE dst[k]]_vars

\* a Merge under Ours has returned: one key of the source is new to the
\* destination, another was there with a record of its own and kept it
C16_Witness ==
  /\ last.op = "Merge"
  /\ last.strategy = MergeOurs
  /\ last.res = "nil"
  /\ \E k1, k2 \in OtherKeys :
       /\ HeldIn(variant, World, "A")[k1] = SrcItem(k1)
       /\ HeldIn(variant, World, "A")[k2] \notin {NilItem, SrcItem(k2)}
  /\ Length(World, "A") >= 3

C19_SourceUntouched ==
  [][last'.op = "Merge" =>
       /\ IndexOf(WorldP, "B") = IndexOf(World, "B")
       /\ KeysOf(WorldP, Traversal(WorldP, "B"))
            = KeysOf(World, Traversal(World, "B"))]_vars

\* a Merge has returned after it put a record of a two-node source into
\* the destination, and the source still has its two nodes
C19_Witness ==
  /\ last.op = "Merge"
  /\ Length(World, "B") = 2
  /\ Len(Traversal(World, "B")) = 2
  /\ \E k \in OtherKeys \ last.had :
       HeldIn(variant, World, "A")[k] = SrcItem(k)

(***************************************************************************)
(* C20.  Merge between two indexes configured with different maximum       *)
(* heights returns an error before any mutation: the destination's length, *)
(* key set, records and links are exactly as before the call, whatever the *)
(* strategy.                                                               *)
(***************************************************************************)
C20_MismatchRejected ==
  [][(/\ last'.op = "Merge"
      /\ lists["A"].maxLevel # lists["B"].maxLevel) =>
       /\ last'.res # "nil"
       /\ IndexOf(WorldP, "A") = IndexOf(World, "A")]_vars

(***************************************************************************)
(* Where a goroutine is.                                                   *)
(***************************************************************************)
\* the call c is a Merge into l that has made its first access to l and
\* not yet its last
MergeUnderWay(c, l) ==
  /\ c.op = "Merge"
  /\ c.dst = l
  /\ IF variant = "CF" THEN c.pos \in {"rsrc", "write"}
     ELSE \/ c.pos \in {"searchread", "lock", "drain", "write"}
          \/ c.pos = "search" /\ c.begun

\* the call c is a Merge from l that holds the read lock of l
MergeReads(c, l) ==
  /\ c.op = "Merge"
  /\ c.src = l
  /\ IF variant = "CF" THEN c.pos = "write"
     ELSE c.pos \in {"first", "firstread", "search", "searchread", "lock",
                     "drain", "write", "end"}

\* the call c is inside a mutating operation on l
Mutating(c, l) ==
  \/ c.op \in {"Insert", "Delete"} /\ c.dst = l /\ c.pos = "write"
  \/ MergeUnderWay(c, l)

\* the call c is inside an operation on l
Inside(c, l) ==
  \/ Mutating(c, l)
  \/ MergeReads(c, l)
  \/ c.op \notin {"Insert", "Delete", "Merge"} /\ c.dst = l
       /\ c.pos \in {"rlock2", "read"}

\* the lock operation goroutine t is in cannot return
Waits(t) ==
  LET c == threads[t]
  IN \/ c.pos \in {"rlock", "rlock2", "rsrc", "first", "search"}
          /\ ~CanRLock(RLockOn(c))
     \/ c.pos = "lock" /\ ~CanLock(c.dst)
     \/ c.pos = "drain" /\ ~Drained(c.dst)

(***************************************************************************)
(* C12.  On one index, a thread is never inside a mutating operation       *)
(* (Insert, Delete, Merge as destination) while another thread is inside   *)
(* any other operation on that index; only read-only operations may        *)
(* overlap each other.                                                     *)
(***************************************************************************)
C12_WritersExclude ==
  \A l \in Lists : \A t, u \in Threads :
    (t # u /\ Mutating(threads[t], l)) => ~Inside(threads[u], l)

(***************************************************************************)
(* C13.  Two concurrent cross-merges, A.Merge(B, s) and B.Merge(A, s'),    *)
(* never deadlock: the two calls are never both blocked in a lock          *)
(* operation while no other goroutine holds a lock, which is the one way   *)
(* they can fail to return.                                                *)
(***************************************************************************)
C13_CrossMergesReturn ==
  \A t, u \in Threads :
    (/\ threads[t].op = "Merge" /\ threads[t].dst = "A"
     /\ threads[u].op = "Merge" /\ threads[u].dst = "B"
     /\ \A x \in Threads \ {t, u} : threads[x].pos \in {"idle", "done"})
    => ~(Waits(t) /\ Waits(u))

(***************************************************************************)
(* C14.  Merge holds the destination's exclusive lock for its full         *)
(* duration: no Insert or Delete issued by another thread on the           *)
(* destination takes effect between the start and the end of a Merge, and  *)
(* under Ours Merge never overwrites an entry that is in the destination.  *)
(***************************************************************************)
C14_MergeHoldsDestination ==
  [][\A t \in Threads :
       LET c == threads[t]
       IN /\ (/\ c.op \in {"Insert", "Delete"}
              /\ c.pos = "write"
              /\ threads'[t].pos = "done") =>
               \A u \in Threads \ {t} : ~MergeUnderWay(threads[u], c.dst)
          /\ (/\ variant = "CA"
              /\ c.op = "Merge"
              /\ c.strategy = MergeOurs
              /\ c.pos = "write"
              /\ threads'[t].pos # "write") =>
               ~Present(World, c.dst, heap[c.cur].key)]_vars

(***************************************************************************)
(* C15.  When several threads concurrently Insert records with pairwise    *)
(* distinct keys, while other threads run Find, First, Last, Length,       *)
(* IsEmpty and Copy on the same index, then once all have returned         *)
(* Length() equals the number of inserted records, every inserted key is   *)
(* found, and the First()/Next() traversal is strictly increasing with     *)
(* exactly that many nodes.                                                *)
(***************************************************************************)
Inserters == {t \in Threads : threads[t].op = "Insert"}

AllReturned == \A t \in Threads : threads[t].pos = "done"

DistinctKeys ==
  \A t, u \in Inserters : t # u => threads[t].key # threads[u].key

C15_ConcurrentInserts ==
  (AllReturned /\ DistinctKeys) =>
    LET c == Traversal(World, "A")
    IN /\ Length(World, "A") = Cardinality(Inserters)
       /\ Len(c) = Cardinality(Inserters)
       /\ StrictlyIncreasing(KeysOf(World, c))
       /\ \A t \in Inserters :
            LET f == Find(variant, World, "A", threads[t].key)
            IN /\ threads[t].res = "true"
               /\ f # Nil
               /\ heap[f].item = threads[t].item

\* two goroutines have inserted and a third has called Length, which
\* returned 1: it ran after one Insert and before the other
C15_Witness ==
  /\ AllReturned
  /\ DistinctKeys
  /\ Cardinality(Inserters) = 2
  /\ \E t \in Threads : threads[t].op = "Length" /\ threads[t].val = 1
  /\ Length(World, "A") = 2

(***************************************************************************)
(* Merge with a strategy value of the caller's making: MergeStrategy is an *)
(* int, so the caller can pass a value that is none of the three           *)
(* constants.  The source is built with the maxLevel of the destination.   *)
(***************************************************************************)
\* invalidStrategy := MergeStrategy(999)
InvalidStrategy == 999
AnyStrategies == Strategies \cup {InvalidStrategy}

\* other := MakeZeroCopySkiplist(sl.maxLevel, ...) and its Inserts
DoBuildAlike ==
  \E S \in SrcKeySets :
    \E lvls \in [S -> randomLevel(variant, ConfigMaxLevel(variant))] :
      BuildStep(S, lvls, ConfigMaxLevel(variant),
                IF variant = "CF" THEN 0 ELSE SrcContext)

\* sl.Merge(other, strategy) with any int as strategy
DoMergeAny ==
  \E strategy \in AnyStrategies :
    \E lvls \in [OtherKeys -> Levels("A")] : MergeOtherStep(strategy, lvls)

NextStrategy ==
  \/ ~OtherBuilt /\ DoInsert
  \/ ~OtherBuilt /\ DoInsertContext
  \/ ~OtherBuilt /\ DoDelete
  \/ ~OtherBuilt /\ DoDeleteContext
  \/ DoBuildAlike
  \/ DoMergeAny
  \/ DoDrop

SpecStrategy == Init /\ [][NextStrategy]_vars

(***************************************************************************)
(* C21.  Merge called with a strategy value that is none of Theirs, Ours,  *)
(* Error reports an error: when such a Merge meets a key that both indexes *)
(* hold, it does not return nil as a Merge under a valid strategy would.   *)
(***************************************************************************)
C21_InvalidStrategyReported ==
  [][(/\ last'.op = "Merge"
      /\ last'.strategy \notin Strategies
      /\ last'.had \cap OtherKeys # {}) => last'.res # "nil"]_vars

(***************************************************************************)
(* Copy.                                                                   *)
(***************************************************************************)
RECURSIVE CopyLoop_DropsTag(_, _, _, _, _)
\* CopyLoop that inserts every record with the zero tag
CopyLoop_DropsTag(v, w, new, current, lvls) ==
  IF current = Nil
  THEN w
  ELSE LET node == w.heap[current]
       IN CopyLoop_DropsTag(v, Insert(v, w, new, node.item, 0,
                                      lvls[node.key]).w,
                            new, NextOf(w, current), lvls)

RECURSIVE CopyLoop(_, _, _, _, _)
\* for current != nil { newSL.Insert(current.item, current.context);
\*                      current = current.Next() }
\* lvls[key] is the level randomLevel() of the new index draws for key
CopyLoop(v, w, new, current, lvls) ==
  IF current = Nil
  THEN w
  ELSE LET node == w.heap[current]
       IN CopyLoop(v, Insert(v, w, new, node.item, node.context,
                             lvls[node.key]).w,
                   new, NextOf(w, current), lvls)

\* CopyCF that puts the nodes of the original behind the header of the copy
CopyCF_Aliased(w, l, new, lvls) ==
  [heap  |-> [w.heap EXCEPT ![HeaderOf(new)] = w.heap[HeaderOf(l)]],
   lists |-> [w.lists EXCEPT ![new] = [w.lists[l] EXCEPT !.header = HeaderOf(new)]]]

\* Copy of ZeroCopySkiplist[T, K]: the new index is named new
CopyCF(w, l, new, lvls) ==
  LET newSl == MakeZeroCopySkiplistCF(w, new, w.lists[l].maxLevel)
  IN IF w.lists[l].length = 0
     THEN newSl
     ELSE CopyLoop("CF", newSl, new, First(newSl, l), lvls)

\* Copy of ZeroCopySkiplist[T, K, C]
CopyCA(w, l, new, lvls) ==
  LET newSL == MakeZeroCopySkiplistCA(w, new, w.lists[l].maxLevel)
  IN CopyLoop("CA", newSL, new, First(newSL, l), lvls)

\* a Copy that hands out the nodes of the original under a header of its own
Copy_Shared(v, w, l, new, lvls) ==
  [heap  |-> [w.heap EXCEPT ![HeaderOf(new)] = w.heap[HeaderOf(l)]],
   lists |-> [w.lists EXCEPT ![new] = [w.lists[l] EXCEPT !.header = HeaderOf(new)]]]

Copy(v, w, l, new, lvls) ==
  IF v = "CF" THEN CopyCF(w, l, new, lvls) ELSE CopyCA(w, l, new, lvls)

(***************************************************************************)
(* An index and its copy: the caller fills "A", takes c := A.Copy() as "B" *)
(* and then makes up to MaxAfterCopy calls of Insert, Delete and Merge on  *)
(* either of the two.  last.n counts the calls made since the Copy, and    *)
(* last.on is the index the last call was made on.                         *)
(***************************************************************************)
MaxAfterCopy == 2

\* the other one of the two indexes
OtherOf(l) == IF l = "A" THEN "B" ELSE "A"

\* the call op(key) on index l returned r
CopyCallReturns(op, l, key, r) ==
  /\ Becomes(r.w)
  /\ last' = [op |-> op, on |-> l, key |-> key, res |-> r.ret,
              n |-> IF OtherBuilt THEN last.n + 1 ELSE 0]
  /\ held' = HeldBy(l, r.w)
  /\ UNCHANGED <<variant, threads, locks>>

\* sl.Insert(item, context) before the Copy is taken
DoFill ==
  /\ ~OtherBuilt
  /\ \E k \in Keys, context \in SrcContexts(variant), newLevel \in Levels("A") :
       CopyCallReturns("Insert", "A", k,
                       Insert(variant, World, "A", OwnItem(k), context, newLevel))

\* c := sl.Copy()
DoCopy ==
  /\ ~OtherBuilt
  /\ \E lvls \in [KeysAt("A") -> Levels("A")] :
       CopyCallReturns("Copy", "A", 0,
                       [w |-> Copy(variant, World, "A", "B", lvls), ret |-> "nil"])

\* Insert of a record of its own on the original or on the copy
DoInsertOn ==
  /\ OtherBuilt
  /\ last.n < MaxAfterCopy
  /\ \E l \in Lists, k \in Keys, newLevel \in Levels("A") :
       CopyCallReturns("Insert", l, k,
                       Insert(variant, World, l, SrcItem(k),
                              IF variant = "CF" THEN 0 ELSE SrcContext, newLevel))

DoDeleteOn ==
  /\ OtherBuilt
  /\ last.n < MaxAfterCopy
  /\ \E l \in Lists, k \in Keys :
       CopyCallReturns("Delete", l, k, Delete(variant, World, l, k))

\* l.Merge(the other one, strategy)
DoMergeInto ==
  /\ OtherBuilt
  /\ last.n < MaxAfterCopy
  /\ \E l \in Lists, strategy \in Strategies :
       \E lvls \in [KeysAt(OtherOf(l)) -> Levels("A")] :
         CopyCallReturns("Merge", l, 0,
                         Merge(variant, World, l, OtherOf(l), strategy, lvls))

NextCopy == DoFill \/ DoCopy \/ DoInsertOn \/ DoDeleteOn \/ DoMergeInto

SpecCopy == Init /\ [][NextCopy]_vars

\* the tags of the nodes c
ContextsOf(w, c) == [j \in 1..Len(c) |-> w.heap[c[j]].context]

(***************************************************************************)
(* C22.  For any index, Copy() returns an index with the same Length and   *)
(* the same keys in the same level-0 order, in which the node for each key *)
(* references the identical record and carries the same tag as the         *)
(* original's node; Find on the copy returns that record for every key.    *)
(***************************************************************************)
C22_CopyMatches ==
  [][last'.op = "Copy" =>
       LET x == Traversal(World, "A")
           c == Traversal(WorldP, "B")
       IN /\ Length(WorldP, "B") = Length(World, "A")
          /\ Len(c) = Length(World, "A")
          /\ KeysOf(WorldP, c) = KeysOf(World, x)
          /\ ItemsOf(WorldP, c) = ItemsOf(World, x)
          /\ ContextsOf(WorldP, c) = ContextsOf(World, x)
          /\ lists'["B"].maxLevel = lists["A"].maxLevel
          /\ \A k \in Keys :
               LET f == Find(variant, World, "A", k)
                   g == Find(variant, WorldP, "B", k)
               IN /\ (f = Nil) = (g = Nil)
                  /\ f # Nil => /\ heap'[g].item = heap[f].item
                                /\ heap'[g].context = heap[f].context]_vars

\* a Copy of a context-aware index of three records has returned; the
\* records do not all carry the same tag
C22_Witness ==
  /\ last.op = "Copy"
  /\ variant = "CA"
  /\ Length(World, "B") = MaxKey
  /\ \E n, m \in NodeIds : /\ n[1] = "A" /\ m[1] = "A"
                           /\ heap[n].item # NilItem /\ heap[m].item # NilItem
                           /\ heap[n].context # heap[m].context

(***************************************************************************)
(* C23.  After c := x.Copy(), any sequence of Insert, Delete and Merge     *)
(* applied to c leaves x's length, key set, records, height and links      *)
(* unchanged, and any such sequence applied to x leaves c unchanged.       *)
(***************************************************************************)
C23_CopyIndependent ==
  [][(OtherBuilt /\ last'.op \in {"Insert", "Delete", "Merge"}) =>
       /\ IndexOf(WorldP, OtherOf(last'.on)) = IndexOf(World, OtherOf(last'.on))
       /\ Traversal(WorldP, OtherOf(last'.on)) = Traversal(World, OtherOf(last'.on))
       /\ \A n \in NodeIds : \A i \in 1..Len(heap'[n].forward) :
            heap'[n].forward[i] # Nil => heap'[n].forward[i][1] = n[1]]_vars

\* the second call after the Copy has deleted from the copy a key the
\* original still holds
C23_Witness ==
  /\ OtherBuilt
  /\ last.op = "Delete"
  /\ last.on = "B"
  /\ last.res = "true"
  /\ last.n = MaxAfterCopy
  /\ Present(World, "A", last.key)
  /\ ~Present(World, "B", last.key)
  /\ Length(World, "A") = MaxKey

(***************************************************************************)
(* Export.  A descriptor (a []byte of the context-free index, a            *)
(* syscall.Iovec of the context-aware one) is [base |-> the record its     *)
(* memory is that of, len |-> its length].  sl.getItemSize is set by the   *)
(* constructor and read by the exporters only, so it is an argument here:  *)
(* a function from records to sizes.                                       *)
(***************************************************************************)
\* the sizes a size extractor reports are 0..MaxSize
MaxSize == 1
ItemSizes == 0..MaxSize
SizeFns == [Items -> ItemSizes]
\* getItemBytes: the bytes of the record, as many as the serializer says
BytesFns == {[i \in Items |-> [base |-> i, len |-> f[i]]] : f \in SizeFns}

RECURSIVE ToPwritevSliceFrom(_, _, _)
\* for current := sl.header.forward[0]; current != nil; current = current.forward[0] {
\*     data := getItemBytes(current.item); if len(data) > 0 { append } }
ToPwritevSliceFrom(w, current, getItemBytes) ==
  IF current = Nil
  THEN <<>>
  ELSE LET data == getItemBytes[w.heap[current].item]
       IN (IF data.len > 0 THEN <<data>> ELSE <<>>)
            \o ToPwritevSliceFrom(w, w.heap[current].forward[1], getItemBytes)

ToPwritevSlice(w, l, getItemBytes) ==
  ToPwritevSliceFrom(w, First(w, l), getItemBytes)

RECURSIVE ToPwritevSliceRawFrom(_, _, _)
\* size := sl.getItemSize(current.item); if size > 0 { append item memory[:size] }
ToPwritevSliceRawFrom(w, current, getItemSize) ==
  IF current = Nil
  THEN <<>>
  ELSE LET size == getItemSize[w.heap[current].item]
       IN (IF size > 0
           THEN <<[base |-> w.heap[current].item, len |-> size]>>
           ELSE <<>>)
            \o ToPwritevSliceRawFrom(w, w.heap[current].forward[1], getItemSize)

ToPwritevSliceRaw(w, l, getItemSize) ==
  ToPwritevSliceRawFrom(w, First(w, l), getItemSize)

RECURSIVE CallbackLoop(_, _, _, _)
\* for current != nil { tmp := current.Next();
\*     if callback(current) { append Iovec{Base: current.item, Len: getItemSize(current.item)} }
\*     current = tmp }
\* callback is a predicate that reads the node; calls are the nodes it was
\* invoked on
CallbackLoop(w, current, callback, getItemSize) ==
  IF current = Nil
  THEN [iovecs |-> <<>>, calls |-> <<>>]
  ELSE LET tmp  == NextOf(w, current)
           rest == CallbackLoop(w, tmp, callback, getItemSize)
       IN [iovecs |-> (IF callback[current]
                       THEN <<[base |-> w.heap[current].item,
                               len  |-> getItemSize[w.heap[current].item]]>>
                       ELSE <<>>) \o rest.iovecs,
           calls  |-> <<current>> \o rest.calls]

CallbackToIovecSlice(w, l, callback, getItemSize) ==
  CallbackLoop(w, First(w, l), callback, getItemSize)

\* ToIovecSlice(context): the context is ignored, every node is included
ToIovecSlice(w, l, context, getItemSize) ==
  CallbackToIovecSlice(w, l, [n \in NodeIds |-> TRUE], getItemSize).iovecs

\* item.context == context
ToContextIovecSlice(w, l, context, getItemSize) ==
  CallbackToIovecSlice(w, l, [n \in NodeIds |-> w.heap[n].context = context],
                       getItemSize).iovecs

\* ToNotContextIovecSlice that leaves out the nodes with the zero tag
ToNotContextIovecSlice_SetOnly(w, l, context, getItemSize) ==
  CallbackToIovecSlice(w, l,
                       [n \in NodeIds |-> /\ w.heap[n].context # context
                                          /\ w.heap[n].context # 0],
                       getItemSize).iovecs

\* item.context != context
ToNotContextIovecSlice(w, l, context, getItemSize) ==
  CallbackToIovecSlice(w, l, [n \in NodeIds |-> w.heap[n].context # context],
                       getItemSize).iovecs

\* the unconditional export of implementation v
ExportAll(v, w, l, getItemSize) ==
  IF v = "CF" THEN ToPwritevSliceRaw(w, l, getItemSize)
              ELSE ToIovecSlice(w, l, 0, getItemSize)

RECURSIVE SortedSpans(_, _, _)
\* the records the callers have put in, by ascending key from k on, each
\* with its span, those of span 0 left out
SortedSpans(h, k, getItemSize) ==
  IF k > MaxKey
  THEN <<>>
  ELSE (IF h[k] # NilItem /\ getItemSize[h[k]] > 0
        THEN <<[base |-> h[k], len |-> getItemSize[h[k]]]>>
        ELSE <<>>) \o SortedSpans(h, k + 1, getItemSize)

\* the elements of the sequence q
Range(q) == {q[j] : j \in 1..Len(q)}

(***************************************************************************)
(* C24.  For any index state, the unconditional exporter (ToPwritevSlice,  *)
(* ToPwritevSliceRaw, ToIovecSlice) returns the descriptors of the indexed *)
(* records in ascending key order, one per record with a non-zero span,    *)
(* each pointing at the record's own memory with the length given by the   *)
(* size extractor or by the record-to-bytes function.                      *)
(***************************************************************************)
C24_ExportSorted ==
  \A getItemSize \in SizeFns :
    /\ ExportAll(variant, World, "A", getItemSize)
         = SortedSpans(held, 1, getItemSize)
    /\ variant = "CF" =>
         ToPwritevSlice(World, "A",
                        [i \in Items |-> [base |-> i, len |-> getItemSize[i]]])
           = SortedSpans(held, 1, getItemSize)

C26_NoEmptyDescriptor ==
  \A getItemSize \in SizeFns :
    /\ \A d \in Range(ExportAll(variant, World, "A", getItemSize)) : d.len > 0
    /\ variant = "CF" =>
         \A getItemBytes \in BytesFns :
           \A d \in Range(ToPwritevSlice(World, "A", getItemBytes)) : d.len > 0
    /\ variant = "CA" =>
         \A c \in Contexts :
           /\ \A d \in Range(ToContextIovecSlice(World, "A", c, getItemSize)) :
                d.len > 0
           /\ \A d \in Range(ToNotContextIovecSlice(World, "A", c, getItemSize)) :
                d.len > 0

(***************************************************************************)
(* CallbackToIovecSlice, step by step.  The callback is the caller's code: *)
(* it returns true or false, and it may call into the index first; the     *)
(* call the source names is the removal of the node it was handed.  The    *)
(* positions of the goroutine are                                          *)
(*   cbrlock      sl.rw.RLock()                                            *)
(*   cbfirst      the RLock() of sl.First()                                *)
(*   cbfirstread  First() under its read lock                              *)
(*   visit        tmp := current.Next(); callback(current)                 *)
(*   lock, drain  sl.rw.Lock() of the Delete the callback calls            *)
(*   write        that Delete under the write lock                         *)
(*   cbend        return iovecs, with the deferred RUnlock()               *)
(* calls is the sequence of nodes the callback was invoked on, out the     *)
(* nodes whose Iovec was appended.                                         *)
(***************************************************************************)
\* sl.CallbackToIovecSlice(callback) on "A"
Callbacks == {[Idle EXCEPT !.op = "Callback", !.pos = "cbrlock"]}

\* sl.Delete(key) on "A" by a goroutine of its own
Deletes == {[Idle EXCEPT !.op = "Delete", !.pos = "lock", !.key = k] : k \in Keys}

DoCallCallback == \E t \in Callers, c \in Callbacks \cup Deletes : Call(t, c)

\* sl.rw.RLock() returns
CallbackRLock(t) ==
  LET c == threads[t]
  IN /\ c.pos = "cbrlock"
     /\ CanRLock(c.dst)
     /\ locks' = RLock(locks, c.dst, t)
     /\ Moves(t, [c EXCEPT !.pos = "cbfirst"])
     /\ UNCHANGED <<variant, heap, lists, last, held>>

\* the RLock() of sl.First() returns
CallbackFirstRLock(t) ==
  LET c == threads[t]
  IN /\ c.pos = "cbfirst"
     /\ CanRLock(c.dst)
     /\ locks' = RLock(locks, c.dst, t)
     /\ Moves(t, [c EXCEPT !.pos = "cbfirstread"])
     /\ UNCHANGED <<variant, heap, lists, last, held>>

\* the position of the loop when it reaches cur
VisitAt(cur) == IF cur = Nil THEN "cbend" ELSE "visit"

\* current := sl.First() returns
CallbackFirst(t) ==
  LET c == threads[t]
      cur == First(World, c.dst)
  IN /\ c.pos = "cbfirstread"
     /\ locks' = RUnlock(locks, c.dst, t)
     /\ Moves(t, [c EXCEPT !.cur = cur, !.pos = VisitAt(cur)])
     /\ UNCHANGED <<variant, heap, lists, last, held>>

\* tmp := current.Next(); callback(current) returns accept without calling
\* into the index; current = tmp
CallbackVisit(t, accept) ==
  LET c == threads[t]
      tmp == NextOf(World, c.cur)
  IN /\ c.pos = "visit"
     /\ Moves(t, [c EXCEPT !.calls = Append(@, c.cur),
                           !.out = IF accept THEN Append(@, c.cur) ELSE @,
                           !.tmp = Nil,
                           !.cur = tmp,
                           !.pos = VisitAt(tmp)])
     /\ UNCHANGED <<variant, heap, lists, last, held, locks>>

\* tmp := current.Next(); callback(current) calls sl.Delete(current.Key())
CallbackDeletes(t) ==
  LET c == threads[t]
  IN /\ c.pos = "visit"
     /\ Moves(t, [c EXCEPT !.calls = Append(@, c.cur),
                           !.tmp = NextOf(World, c.cur),
                           !.key = heap[c.cur].key,
                           !.pos = "lock"])
     /\ UNCHANGED <<variant, heap, lists, last, held, locks>>

\* the call c after its Delete has returned: a Delete of a goroutine is
\* done; a callback returns true, its Iovec is appended and current = tmp
AfterDelete(c, ret) ==
  IF c.op = "Delete"
  THEN [c EXCEPT !.pos = "done", !.res = ret]
  ELSE [c EXCEPT !.out = Append(@, c.cur), !.cur = c.tmp, !.tmp = Nil,
                 !.pos = VisitAt(c.tmp)]

\* Delete, from the lock to the deferred Unlock()
DeleteReturns(t, c, r) ==
  /\ Becomes(r.w)
  /\ Moves(t, AfterDelete(c, r.ret))
  /\ locks' = Unlock(locks, c.dst, t)
  /\ held' = [held EXCEPT ![c.key] = NilItem]
  /\ UNCHANGED <<variant, last>>

DeleteInside(t) ==
  LET c == threads[t]
  IN /\ c.op \in {"Delete", "Callback"}
     /\ c.pos = "write"
     /\ DeleteReturns(t, c, Delete(variant, World, c.dst, c.key))

\* return iovecs
CallbackEnd(t) ==
  LET c == threads[t]
  IN /\ c.pos = "cbend"
     /\ locks' = RUnlock(locks, c.dst, t)
     /\ Moves(t, [c EXCEPT !.pos = "done"])
     /\ UNCHANGED <<variant, heap, lists, last, held>>

\* "A" holds the records of the keys S when the goroutines start
InitCallback ==
  \E S \in SUBSET Keys :
    \E la \in [S -> randomLevel("CA", ConfigMaxLevel("CA"))] :
      Starts("CA", Populated("CA", EmptyWorld, "A", S, la, SrcContext))

NextCallback ==
  \/ DoCallCallback
  \/ \E t \in Threads : DoLock(t)
  \/ \E t \in Threads : DoDrain(t)
  \/ \E t \in Threads : DeleteInside(t)
  \/ \E t \in Threads : CallbackRLock(t)
  \/ \E t \in Threads : CallbackFirstRLock(t)
  \/ \E t \in Threads : CallbackFirst(t)
  \/ \E t \in Threads : \E accept \in BOOLEAN : CallbackVisit(t, accept)
  \/ \E t \in Threads : CallbackDeletes(t)
  \/ \E t \in Threads : CallbackEnd(t)

SpecCallback == InitCallback /\ [][NextCallback]_vars

(***************************************************************************)
(* C27.  CallbackToIovecSlice(p) invokes p exactly once on every node in   *)
(* level-0 order and returns the descriptors of exactly the nodes for      *)
(* which p returned true; a removal of the current node triggered during   *)
(* the call to p does not stop the traversal: the goroutine is never       *)
(* blocked for good in the middle of it, that is, waiting in Lock() for a  *)
(* read lock that it holds itself.                                         *)
(***************************************************************************)
C27_CallbackGoesOn ==
  \A t \in Threads :
    LET c == threads[t]
    IN /\ (c.op = "Callback" /\ c.pos = "cbend") =>
            /\ c.calls = Traversal(World, c.dst)
            /\ c.out = SelectSeq(c.calls, LAMBDA n : n \in Range(c.out))
       /\ ~(/\ c.op = "Callback"
            /\ c.pos = "drain"
            /\ locks[c.dst].w = t
            /\ locks[c.dst].readers[t] > 0)

(***************************************************************************)
(* C28.  When Insert is called for an already-present key with no tag      *)
(* supplied (the zero value of C), the node's record reference is replaced *)
(* but its existing tag is left unchanged; the tag is replaced only when a *)
(* tag is supplied.                                                        *)
(***************************************************************************)
C28_TagKeptWhenNoneSupplied ==
  [][(/\ variant = "CA"
      /\ last'.op = "Insert"
      /\ last'.item # NilItem
      /\ Find("CA", World, "A", last'.key) # Nil) =>
       LET f == Find("CA", World, "A", last'.key)
       IN /\ heap'[f].item = last'.item
          /\ heap'[f].context = IF last'.context = 0 THEN heap[f].context
                                ELSE last'.context]_vars

(***************************************************************************)
(* Construction with any maxLevel argument: the caller constructs "A" with *)
(* an argument of MakeArgs and then calls Insert and Delete on it.         *)
(* last.arg is the argument the index was constructed with.                *)
(***************************************************************************)
\* maxLevel = 16 // default fallback
DefaultMaxLevel == 16
MakeArgs == (0 - MaxLevels)..MaxLevels
\* at most this many records in an index constructed here
MaxMakeLen == 2

\* sl := MakeZeroCopySkiplist(maxLevel, ...); in ZeroCopySkiplist[T, K, C]
\* make([]*ItemPtr[T, K, C], maxLevel+1) panics on a negative length
Construct(v, w, l, maxLevel) ==
  IF v = "CF"
  THEN [w |-> MakeZeroCopySkiplistCF(w, l, maxLevel), ret |-> "nil"]
  ELSE IF maxLevel + 1 < 0
  THEN [w |-> w, ret |-> "panic"]
  ELSE [w |-> MakeZeroCopySkiplistCA(w, l, maxLevel), ret |-> "nil"]

\* the header of l has no forward[0]: the descent of Insert and Delete
\* starts with current.forward[sl.level], index out of range
NoLevels(w, l) == Len(w.heap[w.lists[l].header].forward) = 0

InsertMade(v, w, l, item, context, newLevel) ==
  IF NoLevels(w, l) THEN [w |-> w, ret |-> "panic"]
  ELSE Insert(v, w, l, item, context, newLevel)

DeleteMade(v, w, l, key) ==
  IF NoLevels(w, l) THEN [w |-> w, ret |-> "panic"]
  ELSE Delete(v, w, l, key)

InitMake ==
  \E v \in Variants, maxLevel \in MakeArgs :
    LET r == Construct(v, EmptyWorld, "A", maxLevel)
    IN /\ variant = v
       /\ heap = r.w.heap
       /\ lists = r.w.lists
       /\ last = [op |-> "Make", arg |-> maxLevel, key |-> 0, res |-> r.ret]
       /\ held = [k \in Keys |-> NilItem]
       /\ threads = [t \in Threads |-> Idle]
       /\ locks = [l \in Lists |-> FreeLock]

\* the call op(key) on the constructed index returned r
MadeReturns(op, key, r) ==
  /\ Becomes(r.w)
  /\ last' = [op |-> op, arg |-> last.arg, key |-> key, res |-> r.ret]
  /\ held' = IF r.ret = "panic" THEN held ELSE HeldIn(variant, r.w, "A")
  /\ UNCHANGED <<variant, threads, locks>>

DoInsertMade ==
  /\ lists["A"] # NoList
  /\ Length(World, "A") < MaxMakeLen
  /\ \E k \in Keys, context \in SrcContexts(variant), newLevel \in Levels("A") :
       MadeReturns("Insert", k,
                   InsertMade(variant, World, "A", OwnItem(k), context, newLevel))

DoDeleteMade ==
  /\ lists["A"] # NoList
  /\ \E k \in Keys :
       MadeReturns("Delete", k, DeleteMade(variant, World, "A", k))

NextMake == DoInsertMade \/ DoDeleteMade

SpecMake == InitMake /\ [][NextMake]_vars

(***************************************************************************)
(* C29.  Constructing an index with a non-positive maximum height yields a *)
(* usable empty index whose maximum height is the default 16, and          *)
(* constructing with a positive value keeps that value; the new index has  *)
(* Length() == 0 and IsEmpty() == true, and the operations on it behave as *)
(* on any empty index: none of them panics.                                *)
(***************************************************************************)
C29_MaxLevelDefaulted ==
  /\ last.res # "panic"
  /\ lists["A"] # NoList
  /\ lists["A"].maxLevel = IF last.arg <= 0 THEN DefaultMaxLevel ELSE last.arg
  /\ last.op = "Make" => Length(World, "A") = 0 /\ IsEmpty(World, "A")

(***************************************************************************)
(* The current height of an index.                                         *)
(***************************************************************************)
\* the levels at which the header of l has a node to go to
HeaderLevels(w, l) ==
  LET forward == w.heap[w.lists[l].header].forward
  IN {i \in 0..(Len(forward) - 1) : forward[i + 1] # Nil}

\* the highest of them, 0 when there is none
TopLevel(w, l) ==
  LET S == HeaderLevels(w, l)
  IN IF S = {} THEN 0 ELSE CHOOSE i \in S : \A j \in S : j <= i

(***************************************************************************)
(* C30.  In every reachable state sl.level is the highest level at which   *)
(* the header's forward link is non-nil (0 when the index is empty), every *)
(* header forward link above sl.level is nil, and sl.level does not exceed *)
(* the configured maximum; so a Delete that empties the topmost level      *)
(* leaves sl.level at the next populated level.                            *)
(***************************************************************************)
C30_LevelIsTopLevel ==
  \A l \in Lists :
    lists[l] # NoList =>
      LET sl      == lists[l]
          forward == heap[sl.header].forward
      IN /\ sl.level = TopLevel(World, l)
         /\ sl.length = 0 => sl.level = 0
         /\ \A i \in 0..(Len(forward) - 1) : i > sl.level => forward[i + 1] = Nil
         /\ sl.level <= sl.maxLevel
         /\ sl.level < Len(forward)

\* a successful Delete left nodes behind and none of them on a level above
\* 0: sl.level is 0 and the index is not empty
C30_Witness ==
  /\ last.op = "Delete"
  /\ last.res = "true"
  /\ Find(variant, World, "A", last.key) = Nil
  /\ lists["A"].length > 0
  /\ HeaderLevels(World, "A") = {0}
  /\ lists["A"].level = 0

(***************************************************************************)
(* The chains of the levels above 0.                                       *)
(***************************************************************************)
\* the nodes met by following forward[i] from the header of l
LevelChain(w, l, i) ==
  LET forward == w.heap[w.lists[l].header].forward
  IN IF Len(forward) > i THEN Chain(w.heap, forward[i + 1], i, MaxKey + 1)
     ELSE <<>>

(***************************************************************************)
(* C31.  In every reachable state, for each level i > 0 the chain followed *)
(* via forward[i] from the header is strictly increasing in key and is a   *)
(* subsequence of the level-0 chain; every node on level i has at least    *)
(* i+1 forward slots and also lies on every level j < i.                   *)
(***************************************************************************)
C31_LevelsAreSubsequences ==
  LET c0 == Traversal(World, "A")
      n  == Len(heap[lists["A"].header].forward)
  IN \A i \in 1..(n - 1) :
       LET ci == LevelChain(World, "A", i)
       IN /\ Len(ci) <= MaxKey
          /\ StrictlyIncreasing(KeysOf(World, ci))
          /\ ci = SelectSeq(c0, LAMBDA x : x \in Range(ci))
          /\ \A j \in 1..Len(ci) :
               /\ Len(heap[ci[j]].forward) >= i + 1
               /\ \A k \in 0..(i - 1) : ci[j] \in Range(LevelChain(World, "A", k))

\* a Delete has returned true and left a node on level 1 and, between the
\* nodes of level 0, one that level 1 skips
C31_Witness ==
  /\ last.op = "Delete"
  /\ last.res = "true"
  /\ Len(LevelChain(World, "A", 1)) >= 1
  /\ Len(Traversal(World, "A")) > Len(LevelChain(World, "A", 1))

\* update, current := sl.search(key): the update path of the search for key
UpdatePath(v, w, l, key) ==
  IF v = "CF" THEN searchCF(w, l, key).update ELSE locateCA(w, l, key).update

(***************************************************************************)
(* C32.  After Delete(k) returns true, the removed node is unreachable     *)
(* from the header at every level and is not the backward target of any    *)
(* remaining node: at each level the node took part in, the update path's  *)
(* entry at that level was the node's direct predecessor and now links to  *)
(* the node's former successor, and the former level-0 successor's         *)
(* backward link is the removed node's former backward link.               *)
(***************************************************************************)
C32_DeleteUnlinks ==
  [][(last'.op = "Delete" /\ last'.res = "true") =>
       LET current == Find(variant, World, "A", last'.key)
           update  == UpdatePath(variant, World, "A", last'.key)
           forward == heap[current].forward
           nxt     == forward[1]
       IN /\ current # Nil
          /\ \A i \in 0..(Len(heap'[lists'["A"].header].forward) - 1) :
               current \notin Range(LevelChain(WorldP, "A", i))
          /\ \A id \in NodeIds \ {current} : heap'[id].backward # current
          /\ \A i \in 0..(Len(forward) - 1) :
               /\ heap[update[i + 1]].forward[i + 1] = current
               /\ heap'[update[i + 1]].forward[i + 1] = forward[i + 1]
          /\ nxt # Nil => heap'[nxt].backward = heap[current].backward]_vars

\* Delete(2) has returned true and left the nodes of the keys 1 and 3: the
\* node of 3 points back to the node of 1
C32_Witness ==
  /\ last.op = "Delete"
  /\ last.res = "true"
  /\ last.key = 2
  /\ Traversal(World, "A") = << <<"A", 1>>, <<"A", 3>> >>
  /\ heap[<<"A", 3>>].backward = <<"A", 1>>
  /\ heap[<<"A", 1>>].forward[1] = <<"A", 3>>

\* the objects index l reaches: its header, the nodes of its chains at
\* every level, and what their backward links point to
Reachable(w, l) ==
  LET header == w.lists[l].header
      chains == UNION {Range(LevelChain(w, l, i)) :
                         i \in 0..(Len(w.heap[header].forward) - 1)}
  IN ({header} \cup chains \cup {w.heap[n].backward : n \in chains}) \ {Nil}

(***************************************************************************)
(* C33.  In every reachable state no node object is reachable from two     *)
(* different index instances: Copy and Merge create new nodes in the       *)
(* destination, and only record references and tags are shared.            *)
(***************************************************************************)
C33_NodesNotShared ==
  \A l1, l2 \in Lists :
    (l1 # l2 /\ lists[l1] # NoList /\ lists[l2] # NoList) =>
      Reachable(World, l1) \cap Reachable(World, l2) = {}

\* a Merge between an index and its copy has returned nil; the two hold a
\* key whose nodes are two objects that refer to one record
C33_Witness ==
  /\ OtherBuilt
  /\ last.op = "Merge"
  /\ last.res = "nil"
  /\ \E k \in Keys :
       LET f == Find(variant, World, "A", k)
           g == Find(variant, World, "B", k)
       IN /\ f # Nil /\ g # Nil /\ f # g
          /\ heap[f].item = heap[g].item
          /\ f \in Reachable(World, "A") /\ g \in Reachable(World, "B")

(***************************************************************************)
(* C34.  Every level drawn for a new node lies in 0 .. maxLevel-1, so no   *)
(* node has more than maxLevel forward slots, and the splice in Insert     *)
(* never indexes past the end of the header's forward array.               *)
(***************************************************************************)
C34_LevelBelowMaxLevel ==
  \A l \in Lists : \A n \in NodeIds :
    (lists[l] # NoList /\ n[1] = l /\ n # lists[l].header /\ heap[n] # NoNode) =>
      /\ Len(heap[n].forward) - 1 \in 0..(lists[l].maxLevel - 1)
      /\ Len(heap[n].forward) <= lists[l].maxLevel
      /\ Len(heap[n].forward) <= Len(heap[lists[l].header].forward)

(***************************************************************************)
(* C35.  Inserting a record with an absent key and then deleting that key  *)
(* restores the exact prior state for every level drawn for the new node:  *)
(* the same level-0 sequence, the same forward links at every level, the   *)
(* same backward links, the same height and the same Length.               *)
(***************************************************************************)
C35_InsertThenDeleteRestores ==
  [][(/\ last'.op = "Insert"
      /\ last'.res = "true"
      /\ Find(variant, World, "A", last'.key) = Nil) =>
       LET d == Delete(variant, WorldP, "A", last'.key)
       IN /\ d.ret = "true"
          /\ Traversal(d.w, "A") = Traversal(World, "A")
          /\ Links(d.w) = Links(World)
          /\ d.w.lists["A"].level = lists["A"].level
          /\ Length(d.w, "A") = Length(World, "A")
          /\ d.w.heap = heap]_vars

\* an Insert has put a node between two others and raised the height from
\* 0 to 1; Delete of its key lowers the height again
C35_Witness ==
  /\ last.op = "Insert"
  /\ last.res = "true"
  /\ last.key = 2
  /\ KeysOf(World, Traversal(World, "A")) = <<1, 2, 3>>
  /\ LevelChain(World, "A", 1) = << <<"A", 2>> >>
  /\ lists["A"].level = 1
  /\ LET d == Delete(variant, World, "A", last.key)
     IN d.ret = "true" /\ d.w.lists["A"].level = 0 /\ Length(d.w, "A") = 2

(***************************************************************************)
(* Self-merge: one goroutine calls dst.Merge(src, s) on two populated      *)
(* indexes, where src may be dst itself.                                   *)
(***************************************************************************)
\* x.Merge(x, strategy): sl and other are one index, so the maxLevels agree
SelfMerges(v) ==
  {[Idle EXCEPT !.op = "Merge", !.dst = d, !.src = d, !.strategy = st,
                !.pos = IF v = "CA" THEN "rsrc" ELSE "lock", !.res = "nil"] :
     d \in Lists, st \in Strategies}

DoCallMerge ==
  \E c \in Merges(variant) \cup SelfMerges(variant) : Call(1, c)

NextSelfMerge ==
  \/ DoCallMerge
  \/ \E t \in Threads : DoRLock(t)
  \/ \E t \in Threads : DoLock(t)
  \/ \E t \in Threads : DoDrain(t)
  \/ DoMergeBodyCF
  \/ \E t \in Threads : MergeFirst(t)
  \/ \E t \in Threads : MergeSearch(t)
  \/ DoMergeInsert
  \/ \E t \in Threads : MergeEnd(t)

SpecSelfMerge == InitConc /\ [][NextSelfMerge]_vars

\* goroutine t is in RLock() of a lock whose write lock it holds, or in
\* Lock() of a lock it holds a read lock of: only t could release what t
\* waits for
SelfBlocked(t) ==
  LET c == threads[t]
  IN \/ /\ c.pos \in {"rlock", "rlock2", "rsrc", "first", "search"}
        /\ locks[RLockOn(c)].w = t
     \/ /\ c.pos = "drain"
        /\ locks[c.dst].w = t
        /\ locks[c.dst].readers[t] > 0

(***************************************************************************)
(* C36.  A self-merge x.Merge(x, strategy) returns for every strategy and  *)
(* every state of x: the goroutine is never blocked on a lock of x that it *)
(* holds itself.                                                           *)
(***************************************************************************)
C36_SelfMergeReturns ==
  \A t \in Threads :
    (threads[t].op = "Merge" /\ threads[t].src = threads[t].dst) => ~SelfBlocked(t)

\* goroutine t is in RLock() of the lock of l while it holds a read lock of
\* l, and goroutine u is in Lock() of l waiting for the read locks
NestedBehindWriter(t, u, l) ==
  /\ threads[t].pos \in {"rlock", "rlock2", "rsrc", "first", "search"}
  /\ RLockOn(threads[t]) = l
  /\ locks[l].readers[t] > 0
  /\ threads[u].pos = "drain"
  /\ threads[u].dst = l
  /\ locks[l].w = u

(***************************************************************************)
(* C37.  In the context-aware implementation a Copy or a Merge that reads  *)
(* an index while another goroutine calls Insert or Delete on that index   *)
(* always lets both calls return: the reader is never in a second RLock()  *)
(* of a lock it holds while the writer is in Lock() waiting for it.        *)
(***************************************************************************)
C37_ReadersLetWritersIn ==
  variant = "CA" =>
    \A t, u \in Threads : \A l \in Lists :
      (/\ t # u
       /\ threads[t].op \in {"Copy", "Merge"}
       /\ threads[u].op \in {"Insert", "Delete"})
      => ~NestedBehindWriter(t, u, l)

(***************************************************************************)
(* Tags written by goroutines: two goroutines on a populated               *)
(* context-aware index "A"; each makes one call out of Insert, Delete,     *)
(* Find, UpdateContext(key, context) and                                   *)
(*     found, _ := sl.Find(key); found.SetContext(context).                *)
(* cur is the *ItemPtr the call got from its search.  A goroutine that     *)
(* still refers to a node Delete has removed keeps that object alive; no   *)
(* index reaches it, and the heap holds no cell for it any more.           *)
(***************************************************************************)
UpdateContexts ==
  {[Idle EXCEPT !.op = "UpdateContext", !.pos = "rlock", !.key = k,
                !.context = c] : k \in Keys, c \in Contexts}

SetContexts ==
  {[Idle EXCEPT !.op = "SetContext", !.pos = "rlock", !.key = k,
                !.context = c] : k \in Keys, c \in Contexts}

Finds == {c \in Reads : c.op = "Find"}

DoCallContext ==
  \E t \in Callers :
    \E c \in Writes("CA") \cup Finds \cup UpdateContexts \cup SetContexts :
      Call(t, c)

\* item.context = context / ip.context = context
WriteContext(h, n, context) ==
  IF h[n] = NoNode THEN h ELSE [h EXCEPT ![n].context = context]

\* item, _ := sl.search(key) returns and releases the read lock:
\* UpdateContext goes on to sl.rw.Lock() if item != nil and returns false
\* otherwise; the caller of Find goes on to found.SetContext
UpdateSearch(t) ==
  LET c == threads[t]
      item == searchCA(World, c.dst, c.key)
  IN /\ c.op \in {"UpdateContext", "SetContext"}
     /\ c.pos = "read"
     /\ Moves(t, IF item = Nil THEN [c EXCEPT !.pos = "done", !.res = "false"]
                 ELSE [c EXCEPT !.cur = item,
                                !.pos = IF c.op = "UpdateContext" THEN "lock"
                                        ELSE "set"])
     /\ locks' = RUnlock(locks, c.dst, t)
     /\ UNCHANGED <<variant, heap, lists, last, held>>

\* item.context = context; sl.rw.Unlock(); return true
UpdateWrite(t) ==
  LET c == threads[t]
  IN /\ c.op = "UpdateContext"
     /\ c.pos = "write"
     /\ heap' = WriteContext(heap, c.cur, c.context)
     /\ Moves(t, [c EXCEPT !.pos = "done", !.res = "true"])
     /\ locks' = Unlock(locks, c.dst, t)
     /\ UNCHANGED <<variant, lists, last, held>>

\* found.SetContext(context): no lock is taken
SetContextBody(t) ==
  LET c == threads[t]
  IN /\ c.op = "SetContext"
     /\ c.pos = "set"
     /\ heap' = WriteContext(heap, c.cur, c.context)
     /\ Moves(t, [c EXCEPT !.pos = "done", !.res = "nil"])
     /\ UNCHANGED <<variant, lists, last, held, locks>>

NextContext ==
  \/ DoCallContext
  \/ \E t \in Threads : DoRLock(t)
  \/ \E t \in Threads : DoLock(t)
  \/ \E t \in Threads : DoDrain(t)
  \/ DoInsertBody
  \/ \E t \in Threads : DeleteBody(t)
  \/ \E t \in Threads : FindBody(t)
  \/ \E t \in Threads : UpdateSearch(t)
  \/ \E t \in Threads : UpdateWrite(t)
  \/ \E t \in Threads : SetContextBody(t)

SpecContext == InitCallback /\ [][NextContext]_vars

(***************************************************************************)
(* C38.  UpdateContext(key, c) returns true only if it wrote tag c to a    *)
(* node that is in the index at the moment of the write, and returns false *)
(* changing nothing when key is absent, under any interleaving with Insert *)
(* and Delete by other goroutines.                                         *)
(***************************************************************************)
C38_UpdateContextHitsIndex ==
  [][\A t \in Threads :
       (/\ threads[t].op = "UpdateContext"
        /\ threads[t].pos # "done"
        /\ threads'[t].pos = "done") =>
         IF threads'[t].res = "true"
         THEN /\ threads[t].cur \in Range(Traversal(World, "A"))
              /\ heap'[threads[t].cur].context = threads[t].context
         ELSE /\ ~Present(World, "A", threads[t].key)
              /\ heap' = heap /\ lists' = lists]_vars

\* the nodes whose tag or record reference the step writes: an existing
\* node that changes either, or a node the step creates
Written ==
  {n \in NodeIds : /\ n[2] # 0
                   /\ heap'[n] # NoNode
                   /\ \/ heap'[n].context # heap[n].context
                      \/ heap'[n].item # heap[n].item}

(***************************************************************************)
(* C39.  Every write to a node's tag or record reference is made while the *)
(* writing goroutine holds the owning index's exclusive lock, so no        *)
(* goroutine reads a tag under the read lock while another writes it; this *)
(* holds for Insert's update path, UpdateContext and ItemPtr.SetContext.   *)
(***************************************************************************)
C39_TagWrittenUnderLock ==
  [][\A n \in Written :
       /\ locks[n[1]].w # 0
       /\ threads[locks[n[1]].w].pos = "write"
       /\ Drained(n[1])]_vars

====
